---------------------------- MODULE Spec2Model ----------------------------
(***************************************************************************)
(* A model of the PL-Marker annotator.                                     *)
(*                                                                         *)
(*   Spec        the editor of src/entity_annotator.py, one action per     *)
(*               event handler (pointer down/up/move, popup buttons, the   *)
(*               D key, undo, redo, delete_all_relations).                 *)
(*   SpecNav     the legacy editor of src/navigation.py (class             *)
(*               EntityAnnotator), which implements token deletion.        *)
(*   SpecLayout  render_document / _render_entity / get_token_info applied *)
(*               to documents and container widths drawn from small sets.  *)
(*                                                                         *)
(* Conventions.  A token text is modelled by its length in characters      *)
(* (0 is the empty string); a document position is a global token index;   *)
(* Python's None is NoEntity (<<>>), NoKey (<<>>) or NoType ("").           *)
(* An entity of the document is [s, e, t, obj]: obj names the journal      *)
(* record whose list object it is (Python appends the record's own list to *)
(* the document on undo/redo), NoObj when it is an object of its own.      *)
(***************************************************************************)
EXTENDS Integers, Sequences, FiniteSets, TLC

VARIABLES
    doc,                    \* self.doc: [sentences, ner, relations]
    undo_stack,             \* self.undo_stack (deque, maxlen)
    redo_stack,             \* self.redo_stack (deque, maxlen)
    undo_disabled,          \* self.undo_button.is_disabled
    redo_disabled,          \* self.redo_button.is_disabled
    is_selecting,           \* self.is_selecting
    selection_start_token,  \* global_idx of self.selection_start_token
    selected_tokens,        \* self.selected_tokens (as a set of indices)
    selected_entity_type,   \* self.selected_entity_type
    selected_entities,      \* self.selected_entities (list of keys)
    dragging_relation,      \* self.dragging_relation
    drag_source_entity,     \* self.drag_source_entity
    drag_source_key,        \* self.drag_source_key
    relation_source_entity, \* self.relation_source_entity
    relation_target_entity, \* self.relation_target_entity
    selected_relation_type, \* self.selected_relation_type
    entity_popup_visible,   \* self.entity_popup.visible
    relation_popup_visible, \* self.relation_popup.visible
    doc_container,          \* self.doc_container (pygame.Rect)
    rendered_tokens,        \* self.rendered_tokens
    rendered_entities,      \* self.rendered_entities
    save_status,            \* self.save_status
    current_file_path,      \* self.current_file_path
    loaded_doc_id,          \* self.doc_id
    database,               \* the tables of self.database
    max_scroll_y,           \* self.max_scroll_y
    doc_scroll_y,           \* self.doc_scroll_y, in tenths of a pixel
    target_scroll_y,        \* self.target_scroll_y, in tenths of a pixel
    last,                   \* history: the handler that ran last and what it did
    pre,                    \* history: the program state before that handler
    probe,                  \* SpecLayout: the index handed to get_token_info
    clock                   \* the number of user events so far

vars == <<doc, undo_stack, redo_stack, undo_disabled, redo_disabled,
          is_selecting, selection_start_token, selected_tokens,
          selected_entity_type, selected_entities, dragging_relation,
          drag_source_entity, drag_source_key, relation_source_entity,
          relation_target_entity, selected_relation_type,
          entity_popup_visible, relation_popup_visible, doc_container,
          rendered_tokens, rendered_entities, save_status, current_file_path,
          loaded_doc_id, database, max_scroll_y, doc_scroll_y, target_scroll_y,
          last, pre, probe, clock>>

---------------------------------------------------------------------------
(* Bounds of the model *)

\* journal depth explored (cfg.MAX_UNDO_HISTORY is 50, navigation.py uses 25)
MAX_UNDO_HISTORY == 2
\* most entities / relations a document holds before creation is disabled
MaxEntities == 2
MaxRelations == 2
\* font metrics: pixels per character and font.get_height()
CharWidth == 10
FontHeight == 18

(* Program constants *)
DEFAULT_WINDOW_WIDTH == 1400
DEFAULT_WINDOW_HEIGHT == 900
TOOLBAR_HEIGHT == 140
NAV_BAR_HEIGHT == 35
NAV_BAR_MARGIN == 10
DOC_CONTAINER_MARGIN == 15
TOKEN_PADDING == 7
TOKEN_LINE_HEIGHT_EXTRA == 4
SENTENCE_SPACING == 15

NoType == ""
NoEntity == <<>>
NoObj == <<0, 0>>
NoKey == <<>>
NoPath == ""

\* the database file the documents come from
DbPath == "annotations.duckdb"

\* the texts of self.save_status
STATUS_LOADED == "Loaded database"
STATUS_SAVED == "Saved successfully"
STATUS_NO_FILE == "No file loaded to save"
STATUS_SAVE_FAILED == "Database save failed"
STATUS_SAVE_ERROR == "Error"

EntityTypes == {"X", "Y"}
RelationTypes == {"R", "S"}

---------------------------------------------------------------------------
(* Sequences *)

Range(f) == {f[i] : i \in DOMAIN f}

RemoveAt(seq, i) == SubSeq(seq, 1, i - 1) \o SubSeq(seq, i + 1, Len(seq))

InsertAt(seq, i, x) == SubSeq(seq, 1, i - 1) \o <<x>> \o SubSeq(seq, i, Len(seq))

Min(S) == CHOOSE x \in S : \A y \in S : x <= y
Max(S) == CHOOSE x \in S : \A y \in S : x >= y

RECURSIVE SortedSeq(_)
\* sorted(S) for a set of integers
SortedSeq(S) == IF S = {} THEN <<>> ELSE <<Min(S)>> \o SortedSeq(S \ {Min(S)})

RECURSIVE Flatten(_)
Flatten(seqs) == IF seqs = <<>> THEN <<>> ELSE Head(seqs) \o Flatten(Tail(seqs))

RECURSIVE Repeat(_, _)
\* [x] * n
Repeat(x, n) == IF n <= 0 THEN <<>> ELSE <<x>> \o Repeat(x, n - 1)

---------------------------------------------------------------------------
(* Entity keys: f"{start}-{end}" and map(int, key.split('-')) *)

Digit == <<"0", "1", "2", "3", "4", "5", "6", "7", "8", "9">>

RECURSIVE ToStr(_)
\* str(n), one character per element
ToStr(n) ==
    IF n < 0 THEN <<"-">> \o ToStr(0 - n)
    ELSE IF n < 10 THEN <<Digit[n + 1]>>
    ELSE ToStr(n \div 10) \o <<Digit[(n % 10) + 1]>>

entity_key(start, end) == ToStr(start) \o <<"-">> \o ToStr(end)

RECURSIVE Split(_, _)
\* str.split(sep): the pieces between the separators
Split(str, sep) ==
    IF \A i \in DOMAIN str : str[i] # sep THEN <<str>>
    ELSE LET i == Min({j \in DOMAIN str : str[j] = sep})
         IN  <<SubSeq(str, 1, i - 1)>> \o Split(SubSeq(str, i + 1, Len(str)), sep)

DigitValue(c) == (CHOOSE d \in 1..10 : Digit[d] = c) - 1

RECURSIVE ParseInt(_)
\* int(str) of a string of decimal digits
ParseInt(str) ==
    IF Len(str) = 1 THEN DigitValue(str[1])
    ELSE 10 * ParseInt(SubSeq(str, 1, Len(str) - 1)) + DigitValue(str[Len(str)])

\* start_idx, end_idx = map(int, entity_key.split('-'))
key_span(key) == LET parts == Split(key, "-")
                 IN  <<ParseInt(parts[1]), ParseInt(parts[2])>>

---------------------------------------------------------------------------
(* pygame.Rect *)

Rect(x, y, w, h) == [x |-> x, y |-> y, w |-> w, h |-> h]
right(r) == r.x + r.w
bottom(r) == r.y + r.h
centerx(r) == r.x + (r.w \div 2)
centery(r) == r.y + (r.h \div 2)
collidepoint(r, p) ==
    /\ r.x <= p[1] /\ p[1] < r.x + r.w
    /\ r.y <= p[2] /\ p[2] < r.y + r.h

\* self.font.size(text)[0] and self.font.get_height()
font_size(text) == text * CharWidth
font_get_height == FontHeight

---------------------------------------------------------------------------
(* Layout: render_document and _render_entity *)

\* the container of EntityAnnotator.__init__
InitContainer ==
    LET toolbar_bottom == TOOLBAR_HEIGHT + NAV_BAR_HEIGHT + NAV_BAR_MARGIN * 2
    IN  Rect(DOC_CONTAINER_MARGIN, toolbar_bottom,
             DEFAULT_WINDOW_WIDTH - DOC_CONTAINER_MARGIN * 2,
             DEFAULT_WINDOW_HEIGHT - toolbar_bottom - DOC_CONTAINER_MARGIN)

\* the container after a VIDEORESIZE event of size (width, height)
ResizedContainer(width, height) == Rect(10, 160, width - 20, height - 170)

line_height == font_get_height + TOKEN_LINE_HEIGHT_EXTRA

\* RenderToken with the slip that the wrap does not ask whether the line
\* holds a token
RenderToken_WrapEmptyLine(c, container, sent_idx, tok_idx, token_text) ==
    IF token_text = 0
    THEN [c EXCEPT !.global_idx = @ + 1]
    ELSE LET token_width == font_size(token_text) + TOKEN_PADDING
             max_line_width == container.w - 20
             wrap == c.line_width + token_width > max_line_width
             w == IF wrap
                  THEN [c EXCEPT !.y = @ + line_height,
                                 !.x = container.x + 10,
                                 !.line_width = 0,
                                 !.line_tokens = <<>>]
                  ELSE c
             token_info == [text |-> token_text,
                            sent_idx |-> sent_idx,
                            tok_idx |-> tok_idx,
                            global_idx |-> w.global_idx,
                            rect |-> Rect(w.x, w.y, token_width, line_height)]
         IN  [w EXCEPT !.toks = Append(@, token_info),
                       !.line_tokens = Append(@, w.global_idx),
                       !.x = @ + token_width + 2,
                       !.line_width = @ + token_width + 2,
                       !.global_idx = @ + 1]

\* RenderToken with the slip that an empty token does not consume an index
RenderToken_EmptyKeepsIndex(c, container, sent_idx, tok_idx, token_text) ==
    IF token_text = 0
    THEN c
    ELSE LET token_width == font_size(token_text) + TOKEN_PADDING
             max_line_width == container.w - 20
             wrap == /\ c.line_width + token_width > max_line_width
                     /\ c.line_tokens # <<>>
             w == IF wrap
                  THEN [c EXCEPT !.y = @ + line_height,
                                 !.x = container.x + 10,
                                 !.line_width = 0,
                                 !.line_tokens = <<>>]
                  ELSE c
             token_info == [text |-> token_text,
                            sent_idx |-> sent_idx,
                            tok_idx |-> tok_idx,
                            global_idx |-> w.global_idx,
                            rect |-> Rect(w.x, w.y, token_width, line_height)]
         IN  [w EXCEPT !.toks = Append(@, token_info),
                       !.line_tokens = Append(@, w.global_idx),
                       !.x = @ + token_width + 2,
                       !.line_width = @ + token_width + 2,
                       !.global_idx = @ + 1]

\* one iteration of the token loop: c is the cursor
\* [x, y, line_width, line_tokens, global_idx, toks]
RenderToken(c, container, sent_idx, tok_idx, token_text) ==
    IF token_text = 0
    THEN [c EXCEPT !.global_idx = @ + 1]
    ELSE LET token_width == font_size(token_text) + TOKEN_PADDING
             max_line_width == container.w - 20
             wrap == /\ c.line_width + token_width > max_line_width
                     /\ c.line_tokens # <<>>
             w == IF wrap
                  THEN [c EXCEPT !.y = @ + line_height,
                                 !.x = container.x + 10,
                                 !.line_width = 0,
                                 !.line_tokens = <<>>]
                  ELSE c
             token_info == [text |-> token_text,
                            sent_idx |-> sent_idx,
                            tok_idx |-> tok_idx,
                            global_idx |-> w.global_idx,
                            rect |-> Rect(w.x, w.y, token_width, line_height)]
         IN  [w EXCEPT !.toks = Append(@, token_info),
                       !.line_tokens = Append(@, w.global_idx),
                       !.x = @ + token_width + 2,
                       !.line_width = @ + token_width + 2,
                       !.global_idx = @ + 1]

RECURSIVE RenderTokens(_, _, _, _, _)
\* for tok_idx, token_text in enumerate(sentence), from position tok_idx on
RenderTokens(c, container, sent_idx, sentence, tok_idx) ==
    IF tok_idx > Len(sentence) THEN c
    ELSE RenderTokens(RenderToken(c, container, sent_idx, tok_idx - 1, sentence[tok_idx]),
                      container, sent_idx, sentence, tok_idx + 1)

RECURSIVE RenderSentences(_, _, _, _)
\* for sent_idx, sentence in enumerate(self.doc["sentences"]), from sent_idx on
RenderSentences(c, container, sentences, sent_idx) ==
    IF sent_idx > Len(sentences) THEN c
    ELSE LET c1 == IF sent_idx > 1
                   THEN [c EXCEPT !.y = @ + SENTENCE_SPACING,
                                  !.line_tokens = <<>>,
                                  !.line_width = 0]
                   ELSE c
             c2 == RenderTokens(c1, container, sent_idx - 1, sentences[sent_idx], 1)
             c3 == [c2 EXCEPT !.y = @ + line_height,
                              !.x = container.x + 10,
                              !.line_width = 0,
                              !.line_tokens = <<>>]
         IN  RenderSentences(c3, container, sentences, sent_idx + 1)

\* the token scan of render_document: self.rendered_tokens
render_tokens(sentences, container, scroll_y) ==
    IF sentences = <<>> THEN <<>>
    ELSE RenderSentences([x |-> container.x + 10,
                          y |-> container.y - scroll_y + 10,
                          line_width |-> 0,
                          line_tokens |-> <<>>,
                          global_idx |-> 0,
                          toks |-> <<>>],
                         container, sentences, 1).toks

\* max(0, total_height - self.doc_container.height) after the token scan
scroll_limit(sentences, container, scroll_y) ==
    LET y == RenderSentences([x |-> container.x + 10,
                              y |-> container.y - scroll_y + 10,
                              line_width |-> 0,
                              line_tokens |-> <<>>,
                              global_idx |-> 0,
                              toks |-> <<>>],
                             container, sentences, 1).y
        total_height == y + 20 - container.y + scroll_y
    IN  Max({0, total_height - container.h})

RECURSIVE SortByX(_)
\* sorted(tokens, key=lambda t: t["rect"].x), stable
SortByX(toks) ==
    IF toks = <<>> THEN <<>>
    ELSE LET m == Min({toks[i].rect.x : i \in DOMAIN toks})
             i == Min({j \in DOMAIN toks : toks[j].rect.x = m})
         IN  <<toks[i]>> \o SortByX(RemoveAt(toks, i))

\* LineRect with the slip that the right edge is the first token's
LineRect_FirstTokenRight(line_tokens) ==
    LET left == line_tokens[1].rect.x
        top == line_tokens[1].rect.y
        rgt == right(line_tokens[1].rect)
        bot == bottom(line_tokens[1].rect)
    IN  Rect(left, top, rgt - left, bot - top)

\* the rectangle of one line of an entity
LineRect(line_tokens) ==
    LET left == line_tokens[1].rect.x
        top == line_tokens[1].rect.y
        rgt == right(line_tokens[Len(line_tokens)].rect)
        bot == bottom(line_tokens[1].rect)
    IN  Rect(left, top, rgt - left, bot - top)

\* lines[y_pos]: the entity's tokens grouped by rect.y
LineTokens(entity_tokens, y_pos) == SelectSeq(entity_tokens, LAMBDA t : t.rect.y = y_pos)

\* _render_entity: the entity_info appended to rendered_entities, or NoEntity
\* when the entity has no rendered token
render_entity(toks, entity) ==
    LET entity_tokens == SelectSeq(toks, LAMBDA t : entity.s <= t.global_idx
                                                    /\ t.global_idx <= entity.e)
        line_ys == SortedSeq({entity_tokens[i].rect.y : i \in DOMAIN entity_tokens})
        entity_rects == [k \in DOMAIN line_ys |->
                            LineRect(SortByX(LineTokens(entity_tokens, line_ys[k])))]
    IN  IF entity_tokens = <<>> THEN NoEntity
        ELSE [start |-> entity.s,
              end |-> entity.e,
              type |-> entity.t,
              rect |-> [multi_line |-> Len(entity_rects) # 1, rects |-> entity_rects]]

\* the entity loop of render_document: self.rendered_entities
render_entities(toks, ner) ==
    LET flat == Flatten(ner)
        infos == [i \in DOMAIN flat |-> render_entity(toks, flat[i])]
    IN  SelectSeq(infos, LAMBDA info : info # NoEntity)

\* self.entity_elements: the keys of the rendered entities
entity_elements(ents) ==
    {entity_key(ents[i].start, ents[i].end) : i \in DOMAIN ents}

\* self.entity_elements[key]: the entity rendered last under the key
entity_element(ents, key) ==
    ents[Max({i \in DOMAIN ents : entity_key(ents[i].start, ents[i].end) = key})]

\* _render_relation with the slip that only the source key is looked for
render_relation_SourceOnly(ents, relation) ==
    LET src_key == entity_key(relation.ss, relation.se)
    IN  IF src_key \notin entity_elements(ents) THEN NoEntity
        ELSE [source |-> entity_element(ents, src_key),
              target |-> entity_element(ents, src_key),
              type |-> relation.t]

\* _render_relation: the relation_info appended to rendered_relations, or
\* NoEntity when an endpoint is not a key of entity_elements
render_relation(ents, relation) ==
    LET src_key == entity_key(relation.ss, relation.se)
        tgt_key == entity_key(relation.ts, relation.te)
    IN  IF src_key \notin entity_elements(ents) \/ tgt_key \notin entity_elements(ents)
        THEN NoEntity
        ELSE [source |-> entity_element(ents, src_key),
              target |-> entity_element(ents, tgt_key),
              type |-> relation.t]

\* the relation loop of render_document: self.rendered_relations
render_relations(ents, relations) ==
    LET flat == Flatten(relations)
        infos == [i \in DOMAIN flat |-> render_relation(ents, flat[i])]
    IN  SelectSeq(infos, LAMBDA info : info # NoEntity)

\* sum(values) of a sequence of integers
RECURSIVE Sum(_)
Sum(values) == IF values = <<>> THEN 0 ELSE Head(values) + Sum(Tail(values))

\* get_entity_center: the centre of the one rectangle, or the mean of the
\* centres of the lines of a multi-line entity
get_entity_center(entity) ==
    LET rects == entity.rect.rects
    IN  IF entity.rect.multi_line
        THEN <<Sum([i \in DOMAIN rects |-> centerx(rects[i])]) \div Len(rects),
               Sum([i \in DOMAIN rects |-> centery(rects[i])]) \div Len(rects)>>
        ELSE <<centerx(rects[1]), centery(rects[1])>>

\* get_entity_top
get_entity_top(entity) ==
    Min({entity.rect.rects[i].y : i \in DOMAIN entity.rect.rects})

\* label_y of _render_relation: above the entities or a quarter down the
\* arc, below the upper entity when that is too high, and not below the
\* lower margin
label_y(container, src_entity, tgt_entity) ==
    LET label_margin == 30
        src_center_y == get_entity_center(src_entity)[2]
        tgt_center_y == get_entity_center(tgt_entity)[2]
        vertical_diff == Max({src_center_y - tgt_center_y, tgt_center_y - src_center_y})
        first == IF vertical_diff < 50
                 THEN Min({get_entity_top(src_entity), get_entity_top(tgt_entity)}) - 20
                 ELSE Min({src_center_y, tgt_center_y}) + (vertical_diff \div 4) - 30
        lifted == IF first < container.y + label_margin
                  THEN Min({src_center_y, tgt_center_y}) + 20
                  ELSE first
    IN  IF lifted > bottom(container) - label_margin
        THEN bottom(container) - label_margin
        ELSE lifted

\* label_x of _render_relation: the middle of the two centres, kept inside
\* the left and the right margin
label_x(container, src_entity, tgt_entity) ==
    LET label_margin == 30
        first == (get_entity_center(src_entity)[1]
                    + get_entity_center(tgt_entity)[1]) \div 2
        kept == IF first < container.x + label_margin
                THEN container.x + label_margin
                ELSE first
    IN  IF kept > right(container) - label_margin
        THEN right(container) - label_margin
        ELSE kept

\* a scroll position and a pixel count: doc_scroll_y and target_scroll_y are
\* floats, kept here to a tenth of a pixel
Tenths(pixels) == pixels * 10

\* int(y) of a float y given in tenths: pygame.Rect cuts a float coordinate
\* towards zero
Pixels(tenths) == IF tenths >= 0 THEN tenths \div 10 ELSE -((-tenths) \div 10)

\* the token rectangles at scroll offset doc_scroll_y: render_document starts
\* at y = doc_container.y - doc_scroll_y + 10 and adds whole pixels, and
\* pygame.Rect(x, y, ...) keeps int(y)
scrolled(toks, scroll_y) ==
    [i \in DOMAIN toks |->
        [toks[i] EXCEPT !.rect.y = Pixels(Tenths(@) - scroll_y)]]

\* render_document on program state s
render_document(s) ==
    LET toks == scrolled(render_tokens(s.doc.sentences, s.doc_container, 0),
                         s.doc_scroll_y)
    IN  IF s.doc.sentences = <<>>
        THEN [s EXCEPT !.rendered_tokens = <<>>, !.rendered_entities = <<>>]
        ELSE [s EXCEPT !.rendered_tokens = toks,
                       !.max_scroll_y = scroll_limit(s.doc.sentences,
                                                     s.doc_container, 0),
                       !.rendered_entities = render_entities(toks, s.doc.ner)]

\* get_token_info: [sent_idx, tok_idx] of a global index, or NoEntity (None)
RECURSIVE TokenInfoFrom(_, _, _, _)
TokenInfoFrom(sentences, sent_idx, total_tokens, global_idx) ==
    IF sent_idx > Len(sentences) THEN NoEntity
    ELSE IF /\ global_idx >= total_tokens
            /\ global_idx < total_tokens + Len(sentences[sent_idx])
         THEN [sent_idx |-> sent_idx - 1, tok_idx |-> global_idx - total_tokens]
         ELSE TokenInfoFrom(sentences, sent_idx + 1,
                            total_tokens + Len(sentences[sent_idx]), global_idx)

get_token_info(sentences, global_idx) == TokenInfoFrom(sentences, 1, 0, global_idx)

\* check_token_hover: the first rendered token whose rect holds pos, or NoEntity
check_token_hover(toks, pos) ==
    LET hits == {i \in DOMAIN toks : collidepoint(toks[i].rect, pos)}
    IN  IF hits = {} THEN NoEntity ELSE toks[Min(hits)]

\* check_entity_hover with the slip that only the first row is tested
check_entity_hover_FirstRow(ents, pos) ==
    LET hits == {i \in DOMAIN ents : collidepoint(ents[i].rect.rects[1], pos)}
    IN  IF hits = {} THEN NoEntity ELSE ents[Min(hits)]

\* check_entity_hover: the first rendered entity one of whose rects holds pos
check_entity_hover(ents, pos) ==
    LET hits == {i \in DOMAIN ents :
                    \E k \in DOMAIN ents[i].rect.rects :
                        collidepoint(ents[i].rect.rects[k], pos)}
    IN  IF hits = {} THEN NoEntity ELSE ents[Min(hits)]

---------------------------------------------------------------------------
(* The annotation database of src/db_manager.py.  A table is the sequence  *)
(* of its rows in insertion order; documents is the set of its rows        *)
(* <<doc_id, doc_index>>, one per doc_id.  A JSON document holds lists: an *)
(* entity is <<s, e, t>>, a relation <<ss, se, ts, te, t>>.                *)

\* a record without the key "doc_id"
NoId == ""

\* a JSON value that is no integer, where an INTEGER column is filled
NotInteger == -99

\* f'doc_{idx}'
DefaultId(idx) == <<"doc_0", "doc_1", "doc_2", "doc_3">>[idx + 1]

\* the tables after initialize_database
EmptyDatabase ==
    [documents |-> {}, sentences |-> <<>>, entities |-> <<>>, relations |-> <<>>]

EntityList(e) == <<e.s, e.e, e.t>>
RelationList(r) == <<r.ss, r.se, r.ts, r.te, r.t>>

\* the lists of each bucket, in order
BucketLists(buckets, AsList(_)) ==
    [b \in DOMAIN buckets |-> [i \in DOMAIN buckets[b] |-> AsList(buckets[b][i])]]

RECURSIVE item_rows(_, _, _, _)
\* the rows (doc_id, sent_idx, item[0], .., item[n-1]) of the items that have
\* at least n elements, bucket by bucket from bucket sent_idx on
item_rows(doc_id, buckets, n, sent_idx) ==
    IF sent_idx >= Len(buckets) THEN <<>>
    ELSE LET long(item) == Len(item) >= n
             kept == SelectSeq(buckets[sent_idx + 1], long)
         IN  [i \in DOMAIN kept |-> <<doc_id, sent_idx>> \o SubSeq(kept[i], 1, n)]
             \o item_rows(doc_id, buckets, n, sent_idx + 1)

\* the rows (doc_id, sent_idx, tokens) of the sentences
sentence_rows(doc_id, sentences) ==
    [i \in DOMAIN sentences |-> <<doc_id, i - 1, sentences[i]>>]

\* an INSERT the database rejects: an INTEGER column is given no integer
rejected(row) == \E k \in 3..(Len(row) - 1) : row[k] = NotInteger

RECURSIVE inserted(_)
\* the INSERTs of a loop that run before the first one that raises
inserted(rows) ==
    IF rows = <<>> \/ rejected(Head(rows)) THEN <<>>
    ELSE <<Head(rows)>> \o inserted(Tail(rows))

\* one turn of the loop of import_from_jsonl over the line at index idx: a
\* blank line is skipped, a line json.loads rejects raises at once, and an
\* INSERT that raises leaves the rows inserted before it in the tables
import_line(db, idx, line) ==
    IF line.kind # "document" THEN [db |-> db, imported |-> 0]
    ELSE LET doc_id == IF line.doc_id = NoId THEN DefaultId(idx) ELSE line.doc_id
             erows == item_rows(doc_id, line.ner, 3, 0)
             rrows == item_rows(doc_id, line.relations, 5, 0)
             e_ok == inserted(erows) = erows
             r_ok == inserted(rrows) = rrows
         IN  [db |-> [documents |-> {r \in db.documents : r[1] # doc_id}
                                        \cup {<<doc_id, idx>>},
                      sentences |-> db.sentences
                                        \o sentence_rows(doc_id, line.sentences),
                      entities |-> db.entities \o inserted(erows),
                      relations |-> db.relations
                                        \o (IF e_ok THEN inserted(rrows) ELSE <<>>)],
              imported |-> IF e_ok /\ r_ok THEN 1 ELSE 0]

RECURSIVE import_lines(_, _, _)
import_lines(db, file, idx) ==
    IF idx >= Len(file) THEN [db |-> db, imported |-> 0]
    ELSE LET one == import_line(db, idx, file[idx + 1])
             rest == import_lines(one.db, file, idx + 1)
         IN  [db |-> rest.db, imported |-> one.imported + rest.imported]

RECURSIVE import_until_error(_, _, _)
\* the loop without its except clause: the first exception ends it
import_until_error(db, file, idx) ==
    IF idx >= Len(file) THEN [db |-> db, imported |-> 0]
    ELSE LET one == import_line(db, idx, file[idx + 1])
             rest == import_until_error(one.db, file, idx + 1)
         IN  IF file[idx + 1].kind # "blank" /\ one.imported = 0
             THEN [db |-> one.db, imported |-> 0]
             ELSE [db |-> rest.db, imported |-> one.imported + rest.imported]

import_from_jsonl_StopAtError(db, file) == import_until_error(db, file, 0)

\* import_from_jsonl: the tables afterwards and the count it returns
import_from_jsonl(db, file) == import_lines(db, file, 0)

RECURSIVE sorted_rows(_, _)
\* ORDER BY the column col, rows of equal value in insertion order
sorted_rows(rows, col) ==
    IF rows = <<>> THEN <<>>
    ELSE LET least == Min({rows[i][col] : i \in DOMAIN rows})
             first == Min({i \in DOMAIN rows : rows[i][col] = least})
         IN  <<rows[first]>> \o sorted_rows(RemoveAt(rows, first), col)

\* the rows WHERE doc_id = ?
rows_of(rows, doc_id) ==
    LET mine(row) == row[1] = doc_id IN SelectSeq(rows, mine)

\* get_document_ids: ORDER BY doc_index
get_document_ids(db) ==
    LET indexes == SortedSeq({r[2] : r \in db.documents})
    IN  [i \in DOMAIN indexes |->
            (CHOOSE r \in db.documents : r[2] = indexes[i])[1]]

\* get_document returns None
None == [doc_id |-> NoId]

\* get_document: None when documents has no row of doc_id; the sentences
\* ORDER BY sent_idx, and the entities (ORDER BY sent_idx, start_idx) and
\* relations (ORDER BY sent_idx) whose sent_idx is below the number of
\* sentences, grouped by sent_idx
get_document(db, doc_id) ==
    IF ~\E r \in db.documents : r[1] = doc_id THEN None
    ELSE LET srows == sorted_rows(rows_of(db.sentences, doc_id), 2)
             erows == sorted_rows(rows_of(db.entities, doc_id), 3)
             rrows == rows_of(db.relations, doc_id)
             bucket(rows, b) ==
                 LET here(row) == row[2] = b - 1
                     found == SelectSeq(rows, here)
                 IN  [i \in DOMAIN found |-> SubSeq(found[i], 3, Len(found[i]))]
         IN  [doc_id |-> doc_id,
              sentences |-> [i \in DOMAIN srows |-> srows[i][3]],
              ner |-> [b \in DOMAIN srows |-> bucket(erows, b)],
              relations |-> [b \in DOMAIN srows |-> bucket(rrows, b)]]

\* save_document without its DELETE statements
save_document_KeepRows(db, document) ==
    [documents |-> db.documents,
     sentences |-> db.sentences
                       \o sentence_rows(document.doc_id, document.sentences),
     entities |-> db.entities \o item_rows(document.doc_id, document.ner, 3, 0),
     relations |-> db.relations
                       \o item_rows(document.doc_id, document.relations, 5, 0)]

\* save_document, when every statement succeeds: the rows of the document are
\* deleted and written again; documents only has modified_at updated
save_document(db, document) ==
    LET others(rows) ==
            LET other(row) == row[1] # document.doc_id IN SelectSeq(rows, other)
    IN  [documents |-> db.documents,
         sentences |-> others(db.sentences)
                           \o sentence_rows(document.doc_id, document.sentences),
         entities |-> others(db.entities)
                           \o item_rows(document.doc_id, document.ner, 3, 0),
         relations |-> others(db.relations)
                           \o item_rows(document.doc_id, document.relations, 5, 0)]

\* the JSON document of self.doc, and self.doc of a JSON document
as_json(doc_id, d) ==
    [doc_id |-> doc_id, sentences |-> d.sentences,
     ner |-> BucketLists(d.ner, EntityList),
     relations |-> BucketLists(d.relations, RelationList)]

\* the line of a JSONL file that holds document d
Line(doc_id, d) == [kind |-> "document"] @@ as_json(doc_id, d)

\* the database the editor's document d was loaded from
Stored(d) == import_from_jsonl(EmptyDatabase, <<Line(NoId, d)>>).db

---------------------------------------------------------------------------
(* The program state as one record, so that a handler is an operator from  *)
(* state to state and a handler that calls another composes them.          *)

St == [doc |-> doc,
       undo_stack |-> undo_stack,
       redo_stack |-> redo_stack,
       undo_disabled |-> undo_disabled,
       redo_disabled |-> redo_disabled,
       is_selecting |-> is_selecting,
       selection_start_token |-> selection_start_token,
       selected_tokens |-> selected_tokens,
       selected_entity_type |-> selected_entity_type,
       selected_entities |-> selected_entities,
       dragging_relation |-> dragging_relation,
       drag_source_entity |-> drag_source_entity,
       drag_source_key |-> drag_source_key,
       relation_source_entity |-> relation_source_entity,
       relation_target_entity |-> relation_target_entity,
       selected_relation_type |-> selected_relation_type,
       entity_popup_visible |-> entity_popup_visible,
       relation_popup_visible |-> relation_popup_visible,
       doc_container |-> doc_container,
       rendered_tokens |-> rendered_tokens,
       rendered_entities |-> rendered_entities,
       save_status |-> save_status,
       current_file_path |-> current_file_path,
       doc_id |-> loaded_doc_id,
       database |-> database,
       max_scroll_y |-> max_scroll_y,
       doc_scroll_y |-> doc_scroll_y,
       target_scroll_y |-> target_scroll_y]

Becomes(s) ==
    /\ doc' = s.doc
    /\ undo_stack' = s.undo_stack
    /\ redo_stack' = s.redo_stack
    /\ undo_disabled' = s.undo_disabled
    /\ redo_disabled' = s.redo_disabled
    /\ is_selecting' = s.is_selecting
    /\ selection_start_token' = s.selection_start_token
    /\ selected_tokens' = s.selected_tokens
    /\ selected_entity_type' = s.selected_entity_type
    /\ selected_entities' = s.selected_entities
    /\ dragging_relation' = s.dragging_relation
    /\ drag_source_entity' = s.drag_source_entity
    /\ drag_source_key' = s.drag_source_key
    /\ relation_source_entity' = s.relation_source_entity
    /\ relation_target_entity' = s.relation_target_entity
    /\ selected_relation_type' = s.selected_relation_type
    /\ entity_popup_visible' = s.entity_popup_visible
    /\ relation_popup_visible' = s.relation_popup_visible
    /\ doc_container' = s.doc_container
    /\ rendered_tokens' = s.rendered_tokens
    /\ rendered_entities' = s.rendered_entities
    /\ save_status' = s.save_status
    /\ current_file_path' = s.current_file_path
    /\ loaded_doc_id' = s.doc_id
    /\ database' = s.database
    /\ max_scroll_y' = s.max_scroll_y
    /\ doc_scroll_y' = s.doc_scroll_y
    /\ target_scroll_y' = s.target_scroll_y

Is(s) ==
    /\ doc = s.doc
    /\ undo_stack = s.undo_stack
    /\ redo_stack = s.redo_stack
    /\ undo_disabled = s.undo_disabled
    /\ redo_disabled = s.redo_disabled
    /\ is_selecting = s.is_selecting
    /\ selection_start_token = s.selection_start_token
    /\ selected_tokens = s.selected_tokens
    /\ selected_entity_type = s.selected_entity_type
    /\ selected_entities = s.selected_entities
    /\ dragging_relation = s.dragging_relation
    /\ drag_source_entity = s.drag_source_entity
    /\ drag_source_key = s.drag_source_key
    /\ relation_source_entity = s.relation_source_entity
    /\ relation_target_entity = s.relation_target_entity
    /\ selected_relation_type = s.selected_relation_type
    /\ entity_popup_visible = s.entity_popup_visible
    /\ relation_popup_visible = s.relation_popup_visible
    /\ doc_container = s.doc_container
    /\ rendered_tokens = s.rendered_tokens
    /\ rendered_entities = s.rendered_entities
    /\ save_status = s.save_status
    /\ current_file_path = s.current_file_path
    /\ loaded_doc_id = s.doc_id
    /\ database = s.database
    /\ max_scroll_y = s.max_scroll_y
    /\ doc_scroll_y = s.doc_scroll_y
    /\ target_scroll_y = s.target_scroll_y

\* the attributes EntityAnnotator.__init__ and load_document assign, for
\* document d
Fresh(d, container) ==
      [doc |-> d,
       undo_stack |-> <<>>,
       redo_stack |-> <<>>,
       undo_disabled |-> TRUE,
       redo_disabled |-> TRUE,
       is_selecting |-> FALSE,
       selection_start_token |-> NoEntity,
       selected_tokens |-> {},
       selected_entity_type |-> NoType,
       selected_entities |-> <<>>,
       dragging_relation |-> FALSE,
       drag_source_entity |-> NoEntity,
       drag_source_key |-> NoKey,
       relation_source_entity |-> NoEntity,
       relation_target_entity |-> NoEntity,
       selected_relation_type |-> NoType,
       entity_popup_visible |-> FALSE,
       relation_popup_visible |-> FALSE,
       doc_container |-> container,
       rendered_tokens |-> <<>>,
       rendered_entities |-> <<>>,
       save_status |-> STATUS_LOADED,
       current_file_path |-> DbPath,
       doc_id |-> DefaultId(0),
       database |-> Stored(d),
       max_scroll_y |-> 0,
       doc_scroll_y |-> 0,
       target_scroll_y |-> 0]

\* EntityAnnotator.__init__ followed by the load of document d: load_document
\* assigns the document and calls render_document
Constructed(d, container) == render_document(Fresh(d, container))

NoPre == [valid |-> FALSE]
NoProbe == <<>>

Entity(s, e, t) == [s |-> s, e |-> e, t |-> t, obj |-> NoObj]

---------------------------------------------------------------------------
(* The journal.  A record is                                               *)
(*   [action, id, entity, relation, relations, old_relations, tokens,      *)
(*    entities]                                                            *)
(* with the fields its action does not use empty.  id is the identity of   *)
(* the record's Python object: the list record.entity is object <<id, 0>>, *)
(* the lists record.relations[i] and record.entities[i] are <<id, i>>.     *)

Relation(r, obj) ==
    [ss |-> r[1], se |-> r[2], ts |-> r[3], te |-> r[4], t |-> r[5], obj |-> obj]

Record(action, id) ==
    [action |-> action, id |-> id, entity |-> NoEntity, relation |-> NoEntity,
     relations |-> <<>>, old_relations |-> <<>>, tokens |-> <<>>, entities |-> <<>>]

RecordIds(s) == {s.undo_stack[i].id : i \in DOMAIN s.undo_stack}
                \cup {s.redo_stack[i].id : i \in DOMAIN s.redo_stack}

\* the identity of the next record object
NewId(s) == Min((1..(Len(s.undo_stack) + Len(s.redo_stack) + 1)) \ RecordIds(s))

\* an append that never drops an element
deque_append_Unbounded(stack, x) == Append(stack, x)

\* deque(maxlen=...).append: a full deque drops its oldest element
deque_append(stack, x) ==
    IF Len(stack) >= MAX_UNDO_HISTORY
    THEN SubSeq(stack, Len(stack) - MAX_UNDO_HISTORY + 2, Len(stack)) \o <<x>>
    ELSE Append(stack, x)

\* a list of the document that shares no object with a live record is an
\* object of its own
Unshare(s) ==
    LET live(obj) == obj[1] \in RecordIds(s)
    IN  [s EXCEPT
           !.doc.ner = [b \in DOMAIN @ |-> [i \in DOMAIN @[b] |->
                          IF live(@[b][i].obj) THEN @[b][i]
                          ELSE [@[b][i] EXCEPT !.obj = NoObj]]],
           !.doc.relations = [b \in DOMAIN @ |-> [i \in DOMAIN @[b] |->
                          IF live(@[b][i].obj) THEN @[b][i]
                          ELSE [@[b][i] EXCEPT !.obj = NoObj]]]]

\* entity[2] = type on a list object: every holder of the object sees it
RetypeInRecord(r, obj, type) ==
    IF r.id # obj[1] THEN r
    ELSE IF obj[2] = 0 THEN [r EXCEPT !.entity[3] = type]
    ELSE [r EXCEPT !.entities[obj[2]][3] = type]

retype_entity(s, b, i, type) ==
    LET obj == s.doc.ner[b][i].obj
        s1 == [s EXCEPT !.doc.ner[b][i].t = type]
    IN  IF obj = NoObj THEN s1
        ELSE [s1 EXCEPT
                !.doc.ner = [c \in DOMAIN @ |-> [j \in DOMAIN @[c] |->
                               IF @[c][j].obj = obj THEN [@[c][j] EXCEPT !.t = type]
                               ELSE @[c][j]]],
                !.undo_stack = [k \in DOMAIN @ |-> RetypeInRecord(@[k], obj, type)],
                !.redo_stack = [k \in DOMAIN @ |-> RetypeInRecord(@[k], obj, type)]]

\* relation[4] = type on a list object
RetypeRelInRecord(r, obj, type) ==
    IF r.id # obj[1] THEN r
    ELSE IF obj[2] = 0 THEN [r EXCEPT !.relation[5] = type]
    ELSE [r EXCEPT !.relations[obj[2]][5] = type]

retype_relation(s, b, i, type) ==
    LET obj == s.doc.relations[b][i].obj
        s1 == [s EXCEPT !.doc.relations[b][i].t = type]
    IN  IF obj = NoObj THEN s1
        ELSE [s1 EXCEPT
                !.doc.relations = [c \in DOMAIN @ |-> [j \in DOMAIN @[c] |->
                               IF @[c][j].obj = obj THEN [@[c][j] EXCEPT !.t = type]
                               ELSE @[c][j]]],
                !.undo_stack = [k \in DOMAIN @ |-> RetypeRelInRecord(@[k], obj, type)],
                !.redo_stack = [k \in DOMAIN @ |-> RetypeRelInRecord(@[k], obj, type)]]

---------------------------------------------------------------------------
(* Lists of buckets *)

\* while len(buckets) < len(sentences): buckets.append([])
Padded(buckets, sentences) ==
    buckets \o Repeat(<<>>, Len(sentences) - Len(buckets))

\* an append to the last bucket after the padding
AppendFirst_Last(buckets, sentences, x) ==
    [Padded(buckets, sentences) EXCEPT ![Len(Padded(buckets, sentences))] = Append(@, x)]

\* buckets[0].append(x) after the padding
AppendFirst(buckets, sentences, x) ==
    [Padded(buckets, sentences) EXCEPT ![1] = Append(@, x)]

SameSpan(e, start, end) == e.s = start /\ e.e = end

SameEnds(r, q) == r.ss = q[1] /\ r.se = q[2] /\ r.ts = q[3] /\ r.te = q[4]

\* <<bucket, index>> of the first entity with the span in bucket order, or <<>>
FindEntity(ner, start, end) ==
    LET hits == {b \in DOMAIN ner : \E i \in DOMAIN ner[b] : SameSpan(ner[b][i], start, end)}
    IN  IF hits = {} THEN <<>>
        ELSE LET b == Min(hits)
             IN  <<b, Min({i \in DOMAIN ner[b] : SameSpan(ner[b][i], start, end)})>>

FindRelation(rels, q) ==
    LET hits == {b \in DOMAIN rels : \E i \in DOMAIN rels[b] : SameEnds(rels[b][i], q)}
    IN  IF hits = {} THEN <<>>
        ELSE LET b == Min(hits)
             IN  <<b, Min({i \in DOMAIN rels[b] : SameEnds(rels[b][i], q)})>>

\* for i, e in enumerate(bucket): if e matches: bucket.pop(i); break
PopFirstEntity(bucket, start, end) ==
    LET hits == {i \in DOMAIN bucket : SameSpan(bucket[i], start, end)}
    IN  IF hits = {} THEN bucket ELSE RemoveAt(bucket, Min(hits))

PopFirstRelation(bucket, q) ==
    LET hits == {i \in DOMAIN bucket : SameEnds(bucket[i], q)}
    IN  IF hits = {} THEN bucket ELSE RemoveAt(bucket, Min(hits))

\* the loop of entity_annotator.py: the break leaves the inner loop only, so
\* the first match of every bucket is popped
pop_entity_each_bucket(ner, start, end) ==
    [b \in DOMAIN ner |-> PopFirstEntity(ner[b], start, end)]

pop_relation_each_bucket(rels, q) ==
    [b \in DOMAIN rels |-> PopFirstRelation(rels[b], q)]

RECURSIVE pop_relations_each_bucket(_, _)
\* for relation in action["relations"]: pop its first match of every bucket
pop_relations_each_bucket(rels, qs) ==
    IF qs = <<>> THEN rels
    ELSE pop_relations_each_bucket(pop_relation_each_bucket(rels, Head(qs)), Tail(qs))

---------------------------------------------------------------------------
(* Annotation actions of src/entity_annotator.py, as functions of the       *)
(* program state                                                           *)

create_new_entity(s) ==
    IF s.selected_tokens = {} \/ s.selected_entity_type = NoType THEN s
    ELSE
      LET start_idx == Min(s.selected_tokens)
          end_idx == Max(s.selected_tokens)
          hit == FindEntity(s.doc.ner, start_idx, end_idx)
          rec == [Record("add_entity", NewId(s)) EXCEPT
                    !.entity = <<start_idx, end_idx, s.selected_entity_type>>]
      IN  IF hit # <<>>
          THEN render_document(retype_entity(s, hit[1], hit[2], s.selected_entity_type))
          ELSE Unshare(render_document(
                 [s EXCEPT
                    !.doc.ner = AppendFirst(@, s.doc.sentences,
                                  Entity(start_idx, end_idx, s.selected_entity_type)),
                    !.undo_stack = deque_append(@, rec),
                    !.redo_stack = <<>>,
                    !.undo_disabled = FALSE,
                    !.redo_disabled = TRUE,
                    !.selected_tokens = {},
                    !.selected_entity_type = NoType]))

create_new_relation(s) ==
    IF \/ s.relation_source_entity = NoEntity
       \/ s.relation_target_entity = NoEntity
       \/ s.selected_relation_type = NoType
    THEN s
    ELSE
      LET q == <<s.relation_source_entity[1], s.relation_source_entity[2],
                 s.relation_target_entity[1], s.relation_target_entity[2],
                 s.selected_relation_type>>
          hit == FindRelation(s.doc.relations, q)
          rec == [Record("add_relation", NewId(s)) EXCEPT !.relation = q]
      IN  IF hit # <<>>
          THEN render_document(retype_relation(s, hit[1], hit[2], s.selected_relation_type))
          ELSE Unshare(render_document(
                 [s EXCEPT
                    !.doc.relations = AppendFirst(@, s.doc.sentences, Relation(q, NoObj)),
                    !.undo_stack = deque_append(@, rec),
                    !.redo_stack = <<>>,
                    !.undo_disabled = FALSE,
                    !.redo_disabled = TRUE,
                    !.relation_source_entity = NoEntity,
                    !.relation_target_entity = NoEntity,
                    !.selected_relation_type = NoType]))

\* a cascade that looks at the source endpoint only
Touches_SourceOnly(r, start, end) == r.ss = start /\ r.se = end

Touches(r, start, end) ==
    (r.ss = start /\ r.se = end) \/ (r.ts = start /\ r.te = end)

delete_selected_entity(s) ==
    IF s.selected_entities = <<>> THEN s
    ELSE
      LET span == key_span(s.selected_entities[1])
          start_idx == span[1]
          end_idx == span[2]
          hit == FindEntity(s.doc.ner, start_idx, end_idx)
          entity_type == s.doc.ner[hit[1]][hit[2]].t
          all == Flatten(s.doc.relations)
          touching == SelectSeq(all, LAMBDA r : Touches(r, start_idx, end_idx))
          removed_relations == [i \in DOMAIN touching |-> RelationList(touching[i])]
          rec == [Record("delete_entity", NewId(s)) EXCEPT
                    !.entity = <<start_idx, end_idx, entity_type>>,
                    !.relations = removed_relations]
      IN  IF hit = <<>> THEN s
          ELSE IF entity_type = NoType THEN s
          ELSE Unshare(render_document(
                 [s EXCEPT
                    !.doc.relations = [b \in DOMAIN @ |->
                        SelectSeq(@[b], LAMBDA r : ~Touches(r, start_idx, end_idx))],
                    !.doc.ner = pop_entity_each_bucket(@, start_idx, end_idx),
                    !.undo_stack = deque_append(@, rec),
                    !.redo_stack = <<>>,
                    !.undo_disabled = FALSE,
                    !.redo_disabled = TRUE,
                    !.selected_entities = <<>>]))

\* the method of src/entity_annotator.py is a placeholder
delete_selected_tokens(s) ==
    render_document([s EXCEPT !.selected_tokens = {}])

delete_all_relations(s) ==
    IF s.doc.relations = <<>> THEN s
    ELSE
      LET old_relations == [b \in DOMAIN s.doc.relations |->
                              [i \in DOMAIN s.doc.relations[b] |->
                                 RelationList(s.doc.relations[b][i])]]
          rec == [Record("delete_all_relations", NewId(s)) EXCEPT
                    !.old_relations = old_relations]
      IN  Unshare(render_document(
            [s EXCEPT
               !.doc.relations = Repeat(<<>>, Len(s.doc.sentences)),
               !.undo_stack = deque_append(@, rec),
               !.redo_stack = <<>>,
               !.undo_disabled = FALSE,
               !.redo_disabled = TRUE]))

reset_relation_creation(s) ==
    [s EXCEPT !.relation_source_entity = NoEntity,
              !.relation_target_entity = NoEntity,
              !.selected_relation_type = NoType]

\* self.doc["relations"][0].append(relation) for each relation of the record:
\* the document gets the record's own lists
AppendRecordRelations(buckets, sentences, action) ==
    IF action.relations = <<>> THEN buckets
    ELSE [Padded(buckets, sentences) EXCEPT
            ![1] = @ \o [i \in DOMAIN action.relations |->
                           Relation(action.relations[i], <<action.id, i>>)]]

\* self.doc["ner"][0].append(action["entity"]): the record's own list
RecordEntity(action) ==
    [s |-> action.entity[1], e |-> action.entity[2], t |-> action.entity[3],
     obj |-> <<action.id, 0>>]

\* undo with the slip that the Undo button stays enabled
undo_ButtonStaysEnabled(s) ==
    IF s.undo_stack = <<>> THEN s
    ELSE
      LET action == s.undo_stack[Len(s.undo_stack)]
          s1 == [s EXCEPT
                   !.undo_stack = SubSeq(@, 1, Len(@) - 1),
                   !.redo_stack = deque_append(@, action),
                   !.redo_disabled = FALSE,
                   !.undo_disabled = FALSE]
          s2 == CASE action.action = "add_entity" ->
                       [s1 EXCEPT !.doc.ner =
                          pop_entity_each_bucket(@, action.entity[1], action.entity[2])]
                  [] action.action = "add_relation" ->
                       [s1 EXCEPT !.doc.relations =
                          pop_relation_each_bucket(@, action.relation)]
                  [] action.action = "delete_entity" ->
                       [s1 EXCEPT
                          !.doc.ner = AppendFirst(@, s.doc.sentences, RecordEntity(action)),
                          !.doc.relations =
                              AppendRecordRelations(@, s.doc.sentences, action)]
                  [] OTHER -> s1
      IN  Unshare(render_document(s2))

undo(s) ==
    IF s.undo_stack = <<>> THEN s
    ELSE
      LET action == s.undo_stack[Len(s.undo_stack)]
          s1 == [s EXCEPT
                   !.undo_stack = SubSeq(@, 1, Len(@) - 1),
                   !.redo_stack = deque_append(@, action),
                   !.redo_disabled = FALSE,
                   !.undo_disabled = (Len(s.undo_stack) = 1)]
          s2 == CASE action.action = "add_entity" ->
                       [s1 EXCEPT !.doc.ner =
                          pop_entity_each_bucket(@, action.entity[1], action.entity[2])]
                  [] action.action = "add_relation" ->
                       [s1 EXCEPT !.doc.relations =
                          pop_relation_each_bucket(@, action.relation)]
                  [] action.action = "delete_entity" ->
                       [s1 EXCEPT
                          !.doc.ner = AppendFirst(@, s.doc.sentences, RecordEntity(action)),
                          !.doc.relations =
                              AppendRecordRelations(@, s.doc.sentences, action)]
                  [] OTHER -> s1
      IN  Unshare(render_document(s2))

\* redo with the slip that the document is not rendered again
redo_NoRender(s) ==
    IF s.redo_stack = <<>> THEN s
    ELSE
      LET action == s.redo_stack[Len(s.redo_stack)]
          s1 == [s EXCEPT
                   !.redo_stack = SubSeq(@, 1, Len(@) - 1),
                   !.undo_stack = deque_append(@, action),
                   !.undo_disabled = FALSE,
                   !.redo_disabled = (Len(s.redo_stack) = 1)]
          s2 == CASE action.action = "add_entity" ->
                       [s1 EXCEPT !.doc.ner =
                          AppendFirst(@, s.doc.sentences, RecordEntity(action))]
                  [] action.action = "add_relation" ->
                       [s1 EXCEPT !.doc.relations =
                          AppendFirst(@, s.doc.sentences,
                                      Relation(action.relation, <<action.id, 0>>))]
                  [] action.action = "delete_entity" ->
                       [s1 EXCEPT
                          !.doc.ner =
                              pop_entity_each_bucket(@, action.entity[1], action.entity[2]),
                          !.doc.relations =
                              pop_relations_each_bucket(@, action.relations)]
                  [] OTHER -> s1
      IN  Unshare(s2)

redo(s) ==
    IF s.redo_stack = <<>> THEN s
    ELSE
      LET action == s.redo_stack[Len(s.redo_stack)]
          s1 == [s EXCEPT
                   !.redo_stack = SubSeq(@, 1, Len(@) - 1),
                   !.undo_stack = deque_append(@, action),
                   !.undo_disabled = FALSE,
                   !.redo_disabled = (Len(s.redo_stack) = 1)]
          s2 == CASE action.action = "add_entity" ->
                       [s1 EXCEPT !.doc.ner =
                          AppendFirst(@, s.doc.sentences, RecordEntity(action))]
                  [] action.action = "add_relation" ->
                       [s1 EXCEPT !.doc.relations =
                          AppendFirst(@, s.doc.sentences,
                                      Relation(action.relation, <<action.id, 0>>))]
                  [] action.action = "delete_entity" ->
                       [s1 EXCEPT
                          !.doc.ner =
                              pop_entity_each_bucket(@, action.entity[1], action.entity[2]),
                          !.doc.relations =
                              pop_relations_each_bucket(@, action.relations)]
                  [] OTHER -> s1
      IN  Unshare(render_document(s2))

---------------------------------------------------------------------------
(* SpecLayout: the layout functions on bounded inputs *)

\* token texts (lengths in characters; 0 is the empty string)
TokenTexts == {0, 3, 6}
\* most tokens and sentences of a layout document
MaxTokens == 3
MaxSentences == 2
\* window widths of VIDEORESIZE events: one token, two short tokens, or all
\* tokens fit a line
LayoutWidths == {100, 130, 1400}
LayoutHeight == 600

SeqsUpTo(S, n) == UNION {[1..k -> S] : k \in 0..n}

NumTokens(sentences) == Len(Flatten(sentences))

LayoutSentences ==
    {ss \in SeqsUpTo(SeqsUpTo(TokenTexts, MaxTokens), MaxSentences) :
        NumTokens(ss) <= MaxTokens}

\* the relations of a document whose one entity spans s..e: none, one from
\* the entity to itself, one to and one from the span of the first token
LayoutRelations(s, e, k) ==
    <<<<>>,
      <<<<Relation(<<s, e, s, e, "R">>, NoObj)>>>>,
      <<<<Relation(<<s, e, 0, 0, "R">>, NoObj)>>>>,
      <<<<Relation(<<0, 0, s, e, "R">>, NoObj)>>>>>>[k]

\* documents with at most one entity, over any span of the document, and at
\* most one relation
LayoutDocs ==
    {[sentences |-> ss, ner |-> <<>>, relations |-> <<>>] : ss \in LayoutSentences}
    \cup
    UNION {{[sentences |-> ss,
             ner |-> <<<<Entity(s, e, "X")>>>>,
             relations |-> LayoutRelations(s, e, k)] :
              s \in 0..(NumTokens(ss) - 1), e \in 0..(NumTokens(ss) - 1),
              k \in 1..4} :
           ss \in LayoutSentences}

InitLayout ==
    /\ \E d \in {x \in LayoutDocs : \A b \in DOMAIN x.ner : \A i \in DOMAIN x.ner[b] :
                                        x.ner[b][i].s <= x.ner[b][i].e} :
          Is(Constructed(d, InitContainer))
    /\ last = "init"
    /\ pre = NoPre
    /\ probe = NoProbe
    /\ clock = 0

\* VIDEORESIZE: the container is rebuilt from the window size and the
\* document is rendered again
LayoutResize ==
    \E width \in LayoutWidths :
        /\ Becomes(render_document(
              [St EXCEPT !.doc_container = ResizedContainer(width, LayoutHeight)]))
        /\ last' = "resize"
        /\ UNCHANGED <<pre, probe, clock>>

\* get_token_info on every index from -1 to one past the last token
LayoutProbe ==
    /\ probe' = [g \in -1..NumTokens(doc.sentences) |->
                    get_token_info(doc.sentences, g)]
    /\ last' = "probe"
    /\ Becomes(St)
    /\ UNCHANGED <<pre, clock>>

NextLayout == LayoutResize \/ LayoutProbe

SpecLayout == InitLayout /\ [][NextLayout]_vars

---------------------------------------------------------------------------
(* Reference notions the claims are stated with *)

RECURSIVE SumLen(_, _)
\* the number of tokens of the first n sentences
SumLen(sentences, n) == IF n = 0 THEN 0 ELSE SumLen(sentences, n - 1) + Len(sentences[n])

\* the positions (sentence, token), 0-based, of a document
Positions(sentences) ==
    {<<s, i>> : s \in 0..(Len(sentences) - 1), i \in 0..(MaxTokens + MAX_UNDO_HISTORY)}
    \cap {p \in (0..(Len(sentences) - 1)) \X (0..(MaxTokens + MAX_UNDO_HISTORY)) :
             p[2] < Len(sentences[p[1] + 1])}

\* the global index the data model gives a position
GlobalIndex(sentences, p) == SumLen(sentences, p[1]) + p[2]

TextAt(sentences, p) == sentences[p[1] + 1][p[2] + 1]

---------------------------------------------------------------------------
---------------------------------------------------------------------------
(* C9: for every entity with a rendered token, _render_entity yields one   *)
(* rectangle per visual row of its tokens, top to bottom, each from the    *)
(* left edge of the row's leftmost entity token to the right edge of its   *)
(* rightmost one, at the row's vertical extent; the geometry is a single   *)
(* rectangle iff the entity occupies one row, else the multi_line list.    *)
EntityTokens(e) ==
    {rendered_tokens[k] : k \in {j \in DOMAIN rendered_tokens :
                                    /\ e.s <= rendered_tokens[j].global_idx
                                    /\ rendered_tokens[j].global_idx <= e.e}}

---------------------------------------------------------------------------
(* Event handlers of src/entity_annotator.py *)

handle_token_click(s, token) ==
    render_document([s EXCEPT !.is_selecting = TRUE,
                              !.selection_start_token = token,
                              !.selected_tokens = {token.global_idx},
                              !.selected_entities = <<>>])

\* a click that adds the entity to the selection
handle_entity_click_Append(s, entity) ==
    LET key == entity_key(entity.start, entity.end)
    IN  render_document(
          [s EXCEPT !.selected_tokens = {},
                    !.selected_entities =
                        IF \E i \in DOMAIN @ : @[i] = key
                        THEN SelectSeq(@, LAMBDA k : k # key)
                        ELSE Append(@, key)])

handle_entity_click(s, entity) ==
    LET key == entity_key(entity.start, entity.end)
    IN  render_document(
          [s EXCEPT !.selected_tokens = {},
                    !.selected_entities =
                        IF \E i \in DOMAIN @ : @[i] = key
                        THEN SelectSeq(@, LAMBDA k : k # key)
                        ELSE <<key>>])

start_dragging_relation(s, entity) ==
    [s EXCEPT !.dragging_relation = TRUE,
              !.drag_source_entity = <<entity.start, entity.end, entity.type>>,
              !.drag_source_key = entity_key(entity.start, entity.end)]

\* the document branch of handle_mouse_down: button 1 is left, 3 is right
handle_mouse_down(s, button, pos) ==
    LET entity == check_entity_hover(s.rendered_entities, pos)
        token == check_token_hover(s.rendered_tokens, pos)
    IN  IF s.entity_popup_visible \/ s.relation_popup_visible THEN s
        ELSE IF ~collidepoint(s.doc_container, pos) THEN s
        ELSE IF button = 3
             THEN IF entity # NoEntity THEN start_dragging_relation(s, entity) ELSE s
        ELSE IF entity # NoEntity THEN handle_entity_click(s, entity)
        ELSE IF token # NoEntity THEN handle_token_click(s, token)
        ELSE s

\* a pointer-up that takes any entity under the pointer as the target
handle_mouse_up_AnyTarget(s, pos) ==
    LET s1 == IF s.is_selecting /\ s.selected_tokens # {}
              THEN [s EXCEPT !.entity_popup_visible = TRUE, !.is_selecting = FALSE]
              ELSE s
        target_entity == check_entity_hover(s1.rendered_entities, pos)
        s2 == IF target_entity # NoEntity
              THEN [s1 EXCEPT
                      !.relation_source_entity = s1.drag_source_entity,
                      !.relation_target_entity =
                          <<target_entity.start, target_entity.end, target_entity.type>>,
                      !.relation_popup_visible = TRUE]
              ELSE s1
    IN  IF s1.dragging_relation
        THEN [s2 EXCEPT !.dragging_relation = FALSE,
                        !.drag_source_entity = NoEntity,
                        !.drag_source_key = NoKey]
        ELSE s1

handle_mouse_up(s, pos) ==
    LET s1 == IF s.is_selecting /\ s.selected_tokens # {}
              THEN [s EXCEPT
                      !.entity_popup_visible =
                          \/ @
                          \/ \E i \in DOMAIN s.rendered_tokens :
                                s.rendered_tokens[i].global_idx = Min(s.selected_tokens),
                      !.is_selecting = FALSE]
              ELSE s
        target_entity == check_entity_hover(s1.rendered_entities, pos)
        accepted == /\ target_entity # NoEntity
                    /\ entity_key(target_entity.start, target_entity.end)
                          # s1.drag_source_key
        s2 == IF accepted
              THEN [s1 EXCEPT
                      !.relation_source_entity = s1.drag_source_entity,
                      !.relation_target_entity =
                          <<target_entity.start, target_entity.end, target_entity.type>>,
                      !.relation_popup_visible = TRUE]
              ELSE s1
    IN  IF s1.dragging_relation
        THEN [s2 EXCEPT !.dragging_relation = FALSE,
                        !.drag_source_entity = NoEntity,
                        !.drag_source_key = NoKey]
        ELSE s1

\* a range that runs from the anchor forwards only
selection_range_Forward(a, b) == a..b

\* list(range(min(a, b), max(a, b) + 1))
selection_range(a, b) == Min({a, b})..Max({a, b})

handle_mouse_motion(s, pos) ==
    LET token == check_token_hover(s.rendered_tokens, pos)
        a == s.selection_start_token.global_idx
        b == token.global_idx
    IN  IF s.is_selecting /\ s.selection_start_token # NoEntity /\ token # NoEntity
        THEN render_document([s EXCEPT !.selected_tokens = selection_range(a, b)])
        ELSE s

\* the K_d branch of handle_key_down
handle_key_d(s) ==
    IF s.selected_entities # <<>> THEN delete_selected_entity(s)
    ELSE IF s.selected_tokens # {} THEN delete_selected_tokens(s)
    ELSE s

\* the entity popup branch of handle_mouse_down, by the popup's result
entity_popup_click(s, result) ==
    IF result \in EntityTypes THEN [s EXCEPT !.selected_entity_type = result]
    ELSE IF result = "save" /\ s.selected_entity_type # NoType
         THEN [create_new_entity(s) EXCEPT !.entity_popup_visible = FALSE]
    ELSE IF result = "cancel"
         THEN render_document([s EXCEPT !.selected_tokens = {},
                                        !.entity_popup_visible = FALSE])
    ELSE s

\* the relation popup branch of handle_mouse_down, by the popup's result
relation_popup_click(s, result) ==
    IF result \in RelationTypes THEN [s EXCEPT !.selected_relation_type = result]
    ELSE IF result = "save" /\ s.selected_relation_type # NoType
         THEN [create_new_relation(s) EXCEPT !.relation_popup_visible = FALSE]
    ELSE IF result = "cancel"
         THEN [reset_relation_creation(s) EXCEPT !.relation_popup_visible = FALSE]
    ELSE s

---------------------------------------------------------------------------
(* Spec: the editor of src/entity_annotator.py under user events *)

\* the number of user events of a session
MaxEvents == 12

NumEntities(d) == Len(Flatten(d.ner))
NumRelations(d) == Len(Flatten(d.relations))

EditorSentences == <<<<3>>, <<3>>>>

\* documents as the database returns them
EditorDocs ==
    {[sentences |-> EditorSentences, ner |-> <<>>, relations |-> <<>>],
     [sentences |-> EditorSentences,
      ner |-> <<<<Entity(0, 0, "X")>>, <<Entity(1, 1, "Y")>>>>,
      relations |-> <<<<Relation(<<0, 0, 1, 1, "R">>, NoObj)>>, <<>>>>]}

\* where the pointer can be: on each rendered token, or on no token
Blank == <<doc_container.x + 5, doc_container.y + 5>>
Points ==
    {<<centerx(rendered_tokens[i].rect), centery(rendered_tokens[i].rect)>> :
        i \in DOMAIN rendered_tokens} \cup {Blank}

Snapshot == [valid |-> TRUE, doc |-> doc, undo_stack |-> undo_stack,
             redo_stack |-> redo_stack, selected_entities |-> selected_entities,
             selected_tokens |-> selected_tokens]

\* the program moves to state s; name is the operation the handler performed,
\* "event" for a handler that performed none
Step(name, s, snapshot) ==
    /\ clock < MaxEvents
    /\ name = "event" => s # St
    /\ NumEntities(s.doc) <= MaxEntities
    /\ NumRelations(s.doc) <= MaxRelations
    /\ Becomes(s)
    /\ last' = name
    /\ pre' = snapshot
    /\ clock' = clock + 1
    /\ UNCHANGED probe

Init ==
    /\ \E d \in EditorDocs : Is(Constructed(d, InitContainer))
    /\ last = "init"
    /\ pre = NoPre
    /\ probe = NoProbe
    /\ clock = 0

MouseDown ==
    \E button \in {1, 3}, pos \in Points :
        Step("event", handle_mouse_down(St, button, pos), NoPre)

\* whether a pointer-up ends a relation drag
MouseUpOp == IF dragging_relation THEN "drag_end" ELSE "event"

MouseUp ==
    \E pos \in Points :
        Step(MouseUpOp, handle_mouse_up(St, pos),
             IF dragging_relation THEN Snapshot ELSE NoPre)

MouseMotion ==
    \E pos \in Points : Step("event", handle_mouse_motion(St, pos), NoPre)

EntityPopupOption ==
    /\ entity_popup_visible
    /\ \E type \in EntityTypes :
          Step("event", entity_popup_click(St, type), NoPre)

\* which branch of create_new_entity a save takes
EntitySaveOp ==
    IF selected_entity_type = NoType \/ selected_tokens = {} THEN "event"
    ELSE IF FindEntity(doc.ner, Min(selected_tokens), Max(selected_tokens)) # <<>>
         THEN "overwrite_entity"
    ELSE "add_entity"

EntityPopupSave ==
    /\ entity_popup_visible
    /\ Step(EntitySaveOp, entity_popup_click(St, "save"), Snapshot)

EntityPopupCancel ==
    /\ entity_popup_visible
    /\ Step("event", entity_popup_click(St, "cancel"), NoPre)

RelationPopupOption ==
    /\ ~entity_popup_visible
    /\ relation_popup_visible
    /\ \E type \in RelationTypes :
          Step("event", relation_popup_click(St, type), NoPre)

\* which branch of create_new_relation a save takes
RelationSaveOp ==
    IF \/ selected_relation_type = NoType
       \/ relation_source_entity = NoEntity
       \/ relation_target_entity = NoEntity
    THEN "event"
    ELSE IF FindRelation(doc.relations,
                         <<relation_source_entity[1], relation_source_entity[2],
                           relation_target_entity[1], relation_target_entity[2]>>) # <<>>
         THEN "overwrite_relation"
    ELSE "add_relation"

RelationPopupSave ==
    /\ ~entity_popup_visible
    /\ relation_popup_visible
    /\ Step(RelationSaveOp, relation_popup_click(St, "save"), Snapshot)

RelationPopupCancel ==
    /\ ~entity_popup_visible
    /\ relation_popup_visible
    /\ Step("event", relation_popup_click(St, "cancel"), NoPre)

\* which operation the D key performs
KeyDOp ==
    IF selected_entities # <<>>
    THEN IF FindEntity(doc.ner, key_span(selected_entities[1])[1],
                       key_span(selected_entities[1])[2]) # <<>>
         THEN "delete_entity"
         ELSE "delete_entity_not_found"
    ELSE IF selected_tokens # {} THEN "delete_tokens"
    ELSE "event"

KeyD ==
    /\ Step(KeyDOp, handle_key_d(St), Snapshot)

\* the undo button and Ctrl+Z, both behind the button's flag
Undo ==
    /\ ~undo_disabled
    /\ Step("undo", undo(St), Snapshot)

\* the redo button and Ctrl+Y, both behind the button's flag
Redo ==
    /\ ~redo_disabled
    /\ Step("redo", redo(St), Snapshot)

Next ==
    \/ MouseDown
    \/ MouseUp
    \/ MouseMotion
    \/ EntityPopupOption
    \/ EntityPopupSave
    \/ EntityPopupCancel
    \/ RelationPopupOption
    \/ RelationPopupSave
    \/ RelationPopupCancel
    \/ KeyD
    \/ Undo
    \/ Redo

Spec == Init /\ [][Next]_vars

---------------------------------------------------------------------------
(* Claims about the journal of src/entity_annotator.py *)

EntitySet(d) == {EntityList(e) : e \in Range(Flatten(d.ner))}
RelationSet(d) == {RelationList(r) : r \in Range(Flatten(d.relations))}

\* the same sentences, entity set and relation set
SameDocument(d1, d2) ==
    /\ d1.sentences = d2.sentences
    /\ EntitySet(d1) = EntitySet(d2)
    /\ RelationSet(d1) = RelationSet(d2)

\* the operations that create, re-type or delete an annotation
EditOps == {"add_entity", "overwrite_entity", "add_relation", "overwrite_relation",
            "delete_entity"}

\* C1: undo() performed immediately after create_new_entity,
\* create_new_relation or delete_selected_entity (a new span, a re-typing or
\* a cascade delete) brings back the entity set, the relation set and the
\* sentences the document had before that operation.
C1_UndoRestoresDocument ==
    [][(last \in EditOps /\ last' = "undo") => SameDocument(doc', pre.doc)]_vars

\* C2: every operation that changes the document appends exactly one record
\* to the undo stack, a record whose undo gives the document back, and leaves
\* the redo stack empty.
C2_OneRecordPerEdit ==
    [][(last' \in EditOps /\ ~SameDocument(doc', doc)) =>
          /\ undo_stack' # <<>>
          /\ undo_stack' = deque_append(undo_stack, undo_stack'[Len(undo_stack')])
          /\ redo_stack' = <<>>
          /\ SameDocument(undo(St').doc, doc)]_vars

\* C3: delete_selected_entity on the selected key (s, e) leaves no relation
\* with (s, e) as source or target, leaves no entity with that span, and
\* leaves every other entity, every other relation and the sentences as they
\* were; when no entity has the span, nothing is removed.
C3_CascadeDelete ==
    [][LET start_idx == key_span(selected_entities[1])[1]
           end_idx == key_span(selected_entities[1])[2]
           other(e) == ~(e[1] = start_idx /\ e[2] = end_idx)
           apart(r) == /\ ~(r[1] = start_idx /\ r[2] = end_idx)
                       /\ ~(r[3] = start_idx /\ r[4] = end_idx)
           was_ner == BucketLists(doc.ner, EntityList)
           was_rel == BucketLists(doc.relations, RelationList)
       IN  /\ last' = "delete_entity" =>
                /\ BucketLists(doc'.ner, EntityList) =
                     [b \in DOMAIN was_ner |-> SelectSeq(was_ner[b], other)]
                /\ BucketLists(doc'.relations, RelationList) =
                     [b \in DOMAIN was_rel |-> SelectSeq(was_rel[b], apart)]
                /\ NumEntities(doc') = NumEntities(doc) - 1
                /\ doc'.sentences = doc.sentences
           /\ last' = "delete_entity_not_found" =>
                /\ doc' = doc
                /\ undo_stack' = undo_stack
                /\ redo_stack' = redo_stack]_vars

C3_Witness ==
    /\ last = "delete_entity"
    /\ NumEntities(pre.doc) = 2
    /\ NumEntities(doc) = 1
    /\ NumRelations(pre.doc) = 2
    /\ NumRelations(doc) = 0

\* C7: undo() followed by redo() leaves the document as it was before the
\* undo, whatever edits, type overwrites included, came before.
C7_UndoThenRedo ==
    [][(last = "undo" /\ last' = "redo") => SameDocument(doc', pre.doc)]_vars

---------------------------------------------------------------------------
(* The legacy editor of src/navigation.py (class EntityAnnotator).  Its    *)
(* state is held in the same variables.  A token text is a number, 0 the   *)
(* empty string.  The pointer is on a rendered token or on none, so        *)
(* rendered_tokens and rendered_entities carry no rectangles here: a       *)
(* token's rectangle holds the pointer iff the pointer is on that token,   *)
(* and an entity's rectangles, which reach from its leftmost to its        *)
(* rightmost token on each row, hold it iff the token is in the span.      *)

RECURSIVE nav_scan(_, _, _)
\* the token loop of render_document of navigation.py: global_idx runs over
\* every token, and a token with an empty text is skipped
nav_scan(sentences, sent_idx, global_idx) ==
    IF sent_idx > Len(sentences) THEN <<>>
    ELSE LET sentence == sentences[sent_idx]
             here == [i \in DOMAIN sentence |->
                        [text |-> sentence[i],
                         sent_idx |-> sent_idx - 1,
                         tok_idx |-> i - 1,
                         global_idx |-> global_idx + i - 1]]
         IN  SelectSeq(here, LAMBDA tk : tk.text # 0)
             \o nav_scan(sentences, sent_idx + 1, global_idx + Len(sentence))

\* render_document of navigation.py: an entity is rendered when both its
\* start token and its end token are
nav_render_document(s) ==
    LET shown == nav_scan(s.doc.sentences, 1, 0)
        has(g) == \E i \in DOMAIN shown : shown[i].global_idx = g
        flat == Flatten(s.doc.ner)
        ents == [i \in DOMAIN flat |->
                   [start |-> flat[i].s, end |-> flat[i].e, type |-> flat[i].t]]
    IN  IF s.doc.sentences = <<>>
        THEN [s EXCEPT !.rendered_tokens = <<>>, !.rendered_entities = <<>>]
        ELSE [s EXCEPT
                !.rendered_tokens = shown,
                !.rendered_entities =
                    SelectSeq(ents, LAMBDA en : has(en.start) /\ has(en.end))]

\* get_token_info of navigation.py
nav_get_token_info(sentences, global_idx) == TokenInfoFrom(sentences, 1, 0, global_idx)

\* check_entity_hover with the pointer on token g: the first rendered entity
\* whose span holds g
nav_check_entity_hover(ents, g) ==
    LET hits == {i \in DOMAIN ents : ents[i].start <= g /\ g <= ents[i].end}
    IN  IF hits = {} THEN NoEntity ELSE ents[Min(hits)]

\* check_token_hover with the pointer on token g
nav_check_token_hover(toks, g) ==
    LET hits == {i \in DOMAIN toks : toks[i].global_idx = g}
    IN  IF hits = {} THEN NoEntity ELSE toks[Min(hits)]

\* remove_entity: the first match in bucket order, then return
remove_entity(ner, start_idx, end_idx) ==
    LET hit == FindEntity(ner, start_idx, end_idx)
    IN  IF hit = <<>> THEN ner
        ELSE [ner EXCEPT ![hit[1]] = RemoveAt(@, hit[2])]

remove_relation(rels, q) ==
    LET hit == FindRelation(rels, q)
    IN  IF hit = <<>> THEN rels
        ELSE [rels EXCEPT ![hit[1]] = RemoveAt(@, hit[2])]

RECURSIVE remove_relations(_, _)
\* for relation in action["relations"]: self.remove_relation(...)
remove_relations(rels, qs) ==
    IF qs = <<>> THEN rels
    ELSE remove_relations(remove_relation(rels, Head(qs)), Tail(qs))

\* add_entity: a new list, appended to bucket 0 after the padding
add_entity(d, start_idx, end_idx, entity_type) ==
    [d EXCEPT !.ner = AppendFirst(@, d.sentences, Entity(start_idx, end_idx, entity_type))]

add_relation(d, q) ==
    [d EXCEPT !.relations = AppendFirst(@, d.sentences, Relation(q, NoObj))]

RECURSIVE add_relations(_, _)
\* for relation in action["relations"]: self.add_relation(...)
add_relations(d, qs) ==
    IF qs = <<>> THEN d
    ELSE add_relations(add_relation(d, Head(qs)), Tail(qs))

\* the lists of the document that are also held by a journal record carry
\* every in-place change into the record
SyncRecord(r, d) ==
    LET ents == Flatten(d.ner)
        rels == Flatten(d.relations)
        ent(i) == {k \in DOMAIN ents : ents[k].obj = <<r.id, i>>}
        rel(i) == {k \in DOMAIN rels : rels[k].obj = <<r.id, i>>}
    IN  [r EXCEPT
           !.entities = [i \in DOMAIN @ |->
                           IF ent(i) = {} THEN @[i]
                           ELSE EntityList(ents[Min(ent(i))])],
           !.relations = [i \in DOMAIN @ |->
                           IF rel(i) = {} THEN @[i]
                           ELSE RelationList(rels[Min(rel(i))])]]

SyncRecords(s) ==
    [s EXCEPT !.undo_stack = [k \in DOMAIN @ |-> SyncRecord(@[k], s.doc)],
              !.redo_stack = [k \in DOMAIN @ |-> SyncRecord(@[k], s.doc)]]

---------------------------------------------------------------------------
(* delete_selected_tokens of src/navigation.py *)

\* an overlap test that looks at the first selected index only
Overlaps_First(a, b, S) == a <= Min(S) /\ Min(S) <= b

\* any(a <= idx <= b for idx in selected_indices)
Overlaps(a, b, S) == \E idx \in S : a <= idx /\ idx <= b

\* the token_info_list: the selected indices get_token_info resolves
token_info_list(sentences, S) ==
    LET selected_indices == SortedSeq(S)
        found == SelectSeq(selected_indices,
                           LAMBDA idx : nav_get_token_info(sentences, idx) # NoEntity)
    IN  [k \in DOMAIN found |->
           LET info == nav_get_token_info(sentences, found[k])
           IN  [global_idx |-> found[k],
                sent_idx |-> info.sent_idx,
                tok_idx |-> info.tok_idx,
                text |-> sentences[info.sent_idx + 1][info.tok_idx + 1]]]

\* tokens_by_sentence[sent_idx], as the set of its tok_idx
removed_tok_idx(infos, sent_idx) ==
    {infos[k].tok_idx : k \in {j \in DOMAIN infos : infos[j].sent_idx = sent_idx}}

\* del self.doc["sentences"][sent_idx][tok_idx] for every selected token
without_tokens(sentences, infos) ==
    [si \in DOMAIN sentences |->
       LET keep == SortedSeq({i \in DOMAIN sentences[si] :
                                 (i - 1) \notin removed_tok_idx(infos, si - 1)})
       IN  [k \in DOMAIN keep |-> sentences[si][keep[k]]]]

RECURSIVE shift_scan(_, _, _, _, _)
\* the loop that fills shift_map, from sentence sent_idx on: the pairs
\* <<old_idx, current_total>>; earlier is the number of tokens removed from
\* the sentences before
shift_scan(sentences, infos, sent_idx, current_total, earlier) ==
    IF sent_idx > Len(sentences) THEN {}
    ELSE LET removed == removed_tok_idx(infos, sent_idx - 1)
             here == {<<current_total + tok_idx
                          + Cardinality({r \in removed : r <= tok_idx})
                          + earlier,
                        current_total + tok_idx>> :
                         tok_idx \in 0..(Len(sentences[sent_idx]) - 1)}
         IN  here \cup shift_scan(sentences, infos, sent_idx + 1,
                                  current_total + Len(sentences[sent_idx]),
                                  earlier + Cardinality(removed))

\* the first idx of range(v, v + tokens_removed + 1) that is in shift_map
shift_candidates(shift_map, v, tokens_removed) ==
    {idx \in v..(v + tokens_removed) : \E p \in shift_map : p[1] = idx}

\* shift_map[idx] for that idx; a later assignment to a key wins
shifted(shift_map, v, tokens_removed) ==
    LET idx == Min(shift_candidates(shift_map, v, tokens_removed))
    IN  Max({p[2] : p \in {q \in shift_map : q[1] = idx}})

\* the entity loop: entities over a deleted token are popped, entities that
\* start after the first deleted token are re-indexed in place or popped
shift_entities(bucket, S, shift_map, tokens_removed) ==
    LET can(v) == shift_candidates(shift_map, v, tokens_removed) # {}
        stays(e) == /\ ~Overlaps(e.s, e.e, S)
                    /\ e.s > Min(S) => (can(e.s) /\ can(e.e))
        kept == SelectSeq(bucket, stays)
    IN  [i \in DOMAIN kept |->
           IF kept[i].s > Min(S)
           THEN [kept[i] EXCEPT !.s = shifted(shift_map, kept[i].s, tokens_removed),
                                !.e = shifted(shift_map, kept[i].e, tokens_removed)]
           ELSE kept[i]]

\* the relation loop
shift_relations(bucket, S, shift_map, tokens_removed) ==
    LET can(v) == shift_candidates(shift_map, v, tokens_removed) # {}
        src(r) == r.ss > Min(S) /\ can(r.ss) /\ can(r.se)
        tgt(r) == r.ts > Min(S) /\ can(r.ts) /\ can(r.te)
        updated(r) == src(r) \/ tgt(r)
        stays(r) == /\ ~Overlaps(r.ss, r.se, S)
                    /\ ~Overlaps(r.ts, r.te, S)
                    /\ ~(r.ss > Min(S) /\ ~updated(r))
        kept == SelectSeq(bucket, stays)
        move_src(r) == IF src(r)
                       THEN [r EXCEPT !.ss = shifted(shift_map, r.ss, tokens_removed),
                                      !.se = shifted(shift_map, r.se, tokens_removed)]
                       ELSE r
        move_tgt(r, was) == IF tgt(was)
                            THEN [r EXCEPT !.ts = shifted(shift_map, was.ts, tokens_removed),
                                           !.te = shifted(shift_map, was.te, tokens_removed)]
                            ELSE r
    IN  [i \in DOMAIN kept |-> move_tgt(move_src(kept[i]), kept[i])]

\* the number in the status message "Deleted {tokens_removed} tokens"
reported_tokens(s) == Cardinality(s.selected_tokens)

nav_delete_selected_tokens(s) ==
    IF s.selected_tokens = {} THEN s
    ELSE
      LET S == s.selected_tokens
          sentences == s.doc.sentences
          infos == token_info_list(sentences, S)
          ents == Flatten(s.doc.ner)
          rels == Flatten(s.doc.relations)
          hit_e == SelectSeq(ents, LAMBDA e : Overlaps(e.s, e.e, S) \/ e.s > Min(S))
          hit_r == SelectSeq(rels, LAMBDA r : \/ Overlaps(r.ss, r.se, S)
                                              \/ Overlaps(r.ts, r.te, S)
                                              \/ r.ss > Min(S)
                                              \/ r.ts > Min(S))
          affected_entities == [i \in DOMAIN hit_e |-> EntityList(hit_e[i])]
          affected_relations == [i \in DOMAIN hit_r |-> RelationList(hit_r[i])]
          left == without_tokens(sentences, infos)
          tokens_removed == Cardinality(S)
          shift_map == shift_scan(left, infos, 1, 0, 0)
          action == [Record("delete_tokens", NewId(s)) EXCEPT
                       !.tokens = infos,
                       !.entities = affected_entities,
                       !.relations = affected_relations]
      IN  nav_render_document(Unshare(SyncRecords(
            [s EXCEPT
               !.doc.sentences = left,
               !.doc.ner = [b \in DOMAIN @ |->
                              shift_entities(@[b], S, shift_map, tokens_removed)],
               !.doc.relations = [b \in DOMAIN @ |->
                              shift_relations(@[b], S, shift_map, tokens_removed)],
               !.undo_stack = deque_append(@, action),
               !.redo_stack = <<>>,
               !.undo_disabled = FALSE,
               !.redo_disabled = TRUE,
               !.selected_tokens = {}])))

---------------------------------------------------------------------------
(* restore_deleted_tokens, undo and redo of src/navigation.py *)

RECURSIVE insert_tokens(_, _)
\* the tokens of one sentence, sorted by tok_idx, inserted one after the
\* other; the sentence is extended with "" when tok_idx is not inside it
insert_tokens(sentence, toks) ==
    IF toks = <<>> THEN sentence
    ELSE LET tok_idx == Head(toks).tok_idx
             extended == IF tok_idx >= Len(sentence)
                         THEN sentence \o Repeat(0, tok_idx - Len(sentence) + 1)
                         ELSE sentence
         IN  insert_tokens(InsertAt(extended, tok_idx + 1, Head(toks).text), Tail(toks))

\* tokens_by_sentence[sent_idx], sorted by tok_idx
sentence_tokens(tokens, sent_idx) ==
    LET mine == {k \in DOMAIN tokens : tokens[k].sent_idx = sent_idx}
        order == SortedSeq({tokens[k].tok_idx : k \in mine})
    IN  [i \in DOMAIN order |->
           tokens[CHOOSE k \in mine : tokens[k].tok_idx = order[i]]]

restore_tokens(sentences, tokens) ==
    LET last_sent == Max({tokens[k].sent_idx : k \in DOMAIN tokens})
        all == sentences \o Repeat(<<>>, last_sent + 1 - Len(sentences))
    IN  IF tokens = <<>> THEN sentences
        ELSE [si \in DOMAIN all |-> insert_tokens(all[si], sentence_tokens(tokens, si - 1))]

RECURSIVE restore_entities(_, _, _, _)
\* for entity in entities: the record's list is appended to bucket 0 unless
\* a list with the same start, end and type is in the document
restore_entities(ner, entities, id, i) ==
    IF i > Len(entities) THEN ner
    ELSE LET entity == entities[i]
             found == \E b \in DOMAIN ner : \E k \in DOMAIN ner[b] :
                         EntityList(ner[b][k]) = entity
             base == IF ner = <<>> THEN <<<<>>>> ELSE ner
             mine == [s |-> entity[1], e |-> entity[2], t |-> entity[3],
                      obj |-> <<id, i>>]
         IN  restore_entities(IF found THEN ner
                              ELSE [base EXCEPT ![1] = Append(@, mine)],
                              entities, id, i + 1)

RECURSIVE restore_relations(_, _, _, _)
restore_relations(rels, relations, id, i) ==
    IF i > Len(relations) THEN rels
    ELSE LET relation == relations[i]
             found == \E b \in DOMAIN rels : \E k \in DOMAIN rels[b] :
                         RelationList(rels[b][k]) = relation
             base == IF rels = <<>> THEN <<<<>>>> ELSE rels
         IN  restore_relations(IF found THEN rels
                               ELSE [base EXCEPT ![1] = Append(@, Relation(relation, <<id, i>>))],
                               relations, id, i + 1)

restore_deleted_tokens(d, action) ==
    [d EXCEPT !.sentences = restore_tokens(@, action.tokens),
              !.ner = restore_entities(@, action.entities, action.id, 1),
              !.relations = restore_relations(@, action.relations, action.id, 1)]

nav_undo(s) ==
    IF s.undo_stack = <<>> THEN s
    ELSE
      LET action == s.undo_stack[Len(s.undo_stack)]
          s1 == [s EXCEPT
                   !.undo_stack = SubSeq(@, 1, Len(@) - 1),
                   !.redo_stack = deque_append(@, action),
                   !.redo_disabled = FALSE,
                   !.undo_disabled = (Len(s.undo_stack) = 1)]
          d == s.doc
          s2 == CASE action.action = "add_entity" ->
                       [s1 EXCEPT !.doc.ner =
                          remove_entity(@, action.entity[1], action.entity[2])]
                  [] action.action = "add_relation" ->
                       [s1 EXCEPT !.doc.relations = remove_relation(@, action.relation)]
                  [] action.action = "delete_entity" ->
                       [s1 EXCEPT !.doc =
                          add_relations(add_entity(d, action.entity[1], action.entity[2],
                                                   action.entity[3]),
                                        action.relations)]
                  [] action.action = "delete_tokens" ->
                       [s1 EXCEPT !.doc = restore_deleted_tokens(d, action)]
                  [] OTHER -> s1
      IN  nav_render_document(Unshare(s2))

nav_redo(s) ==
    IF s.redo_stack = <<>> THEN s
    ELSE
      LET action == s.redo_stack[Len(s.redo_stack)]
          s1 == [s EXCEPT
                   !.redo_stack = SubSeq(@, 1, Len(@) - 1),
                   !.undo_stack = deque_append(@, action),
                   !.undo_disabled = FALSE,
                   !.redo_disabled = (Len(s.redo_stack) = 1)]
          d == s.doc
          again == nav_delete_selected_tokens(
                     [s1 EXCEPT !.selected_tokens =
                        {action.tokens[k].global_idx : k \in DOMAIN action.tokens}])
          s2 == CASE action.action = "add_entity" ->
                       [s1 EXCEPT !.doc =
                          add_entity(d, action.entity[1], action.entity[2], action.entity[3])]
                  [] action.action = "add_relation" ->
                       [s1 EXCEPT !.doc = add_relation(d, action.relation)]
                  [] action.action = "delete_entity" ->
                       [s1 EXCEPT
                          !.doc.ner = remove_entity(@, action.entity[1], action.entity[2]),
                          !.doc.relations = remove_relations(@, action.relations)]
                  [] action.action = "delete_tokens" ->
                       [again EXCEPT !.undo_stack = SubSeq(@, 1, Len(@) - 1)]
                  [] OTHER -> s1
      IN  nav_render_document(Unshare(s2))

---------------------------------------------------------------------------
(* Annotation actions and event handlers of src/navigation.py *)

nav_create_new_entity(s) ==
    IF s.selected_tokens = {} \/ s.selected_entity_type = NoType THEN s
    ELSE
      LET start_idx == Min(s.selected_tokens)
          end_idx == Max(s.selected_tokens)
          hit == FindEntity(s.doc.ner, start_idx, end_idx)
          action == [Record("add_entity", NewId(s)) EXCEPT
                       !.entity = <<start_idx, end_idx, s.selected_entity_type>>]
      IN  IF hit # <<>>
          THEN nav_render_document(
                 retype_entity(s, hit[1], hit[2], s.selected_entity_type))
          ELSE nav_render_document(Unshare(
                 [s EXCEPT
                    !.doc = add_entity(@, start_idx, end_idx, s.selected_entity_type),
                    !.undo_stack = deque_append(@, action),
                    !.redo_stack = <<>>,
                    !.undo_disabled = FALSE,
                    !.redo_disabled = TRUE,
                    !.selected_tokens = {},
                    !.selected_entity_type = NoType]))

nav_delete_selected_entity(s) ==
    IF s.selected_entities = <<>> THEN s
    ELSE
      LET span == key_span(s.selected_entities[1])
          start_idx == span[1]
          end_idx == span[2]
          hit == FindEntity(s.doc.ner, start_idx, end_idx)
          entity_type == s.doc.ner[hit[1]][hit[2]].t
          touching == SelectSeq(Flatten(s.doc.relations),
                                LAMBDA r : \/ (r.ss = start_idx /\ r.se = end_idx)
                                           \/ (r.ts = start_idx /\ r.te = end_idx))
          action == [Record("delete_entity", NewId(s)) EXCEPT
                       !.entity = <<start_idx, end_idx, entity_type>>,
                       !.relations = [i \in DOMAIN touching |-> RelationList(touching[i])]]
      IN  IF hit = <<>> THEN s
          ELSE IF entity_type = NoType THEN s
          ELSE nav_render_document(Unshare(
                 [s EXCEPT
                    !.doc.relations = [b \in DOMAIN @ |->
                        SelectSeq(@[b], LAMBDA r :
                           ~(\/ (r.ss = start_idx /\ r.se = end_idx)
                             \/ (r.ts = start_idx /\ r.te = end_idx)))],
                    !.doc.ner = remove_entity(@, start_idx, end_idx),
                    !.undo_stack = deque_append(@, action),
                    !.redo_stack = <<>>,
                    !.undo_disabled = FALSE,
                    !.redo_disabled = TRUE,
                    !.selected_entities = <<>>]))

nav_handle_token_click(s, token) ==
    nav_render_document([s EXCEPT !.is_selecting = TRUE,
                                  !.selection_start_token = token,
                                  !.selected_tokens = {token.global_idx},
                                  !.selected_entities = <<>>,
                                  !.relation_source_entity = NoEntity,
                                  !.relation_target_entity = NoEntity])

\* handle_entity_click with right_click=False
nav_handle_entity_click(s, entity) ==
    LET key == entity_key(entity.start, entity.end)
    IN  nav_render_document(
          [s EXCEPT !.selected_tokens = {},
                    !.selected_entities =
                        IF \E i \in DOMAIN @ : @[i] = key
                        THEN SelectSeq(@, LAMBDA k : k # key)
                        ELSE <<key>>])

\* MOUSEBUTTONDOWN with the left button and the pointer on token g
nav_mouse_down(s, g) ==
    LET entity == nav_check_entity_hover(s.rendered_entities, g)
        token == nav_check_token_hover(s.rendered_tokens, g)
    IN  IF s.entity_popup_visible \/ s.relation_popup_visible THEN s
        ELSE IF entity # NoEntity THEN nav_handle_entity_click(s, entity)
        ELSE IF token # NoEntity THEN nav_handle_token_click(s, token)
        ELSE s

handle_mouse_up_selection(s) ==
    IF s.is_selecting /\ s.selected_tokens # {}
    THEN [s EXCEPT
            !.entity_popup_visible =
                \/ @
                \/ /\ nav_get_token_info(s.doc.sentences, Min(s.selected_tokens)) # NoEntity
                   /\ \E i \in DOMAIN s.rendered_tokens :
                         s.rendered_tokens[i].global_idx = Min(s.selected_tokens),
            !.is_selecting = FALSE]
    ELSE [s EXCEPT !.is_selecting = FALSE]

handle_mouse_motion_selection(s, g) ==
    LET token == nav_check_token_hover(s.rendered_tokens, g)
        a == s.selection_start_token.global_idx
        b == token.global_idx
    IN  IF s.is_selecting /\ s.selection_start_token # NoEntity /\ token # NoEntity
        THEN nav_render_document([s EXCEPT !.selected_tokens = Min({a, b})..Max({a, b})])
        ELSE s

\* KEYDOWN with K_d; hovered is hovered_entity_key is not None, which runs
\* delete_selected_entity a second time
nav_key_d(s, hovered) ==
    LET first == IF s.selected_entities # <<>> THEN nav_delete_selected_entity(s)
                 ELSE IF s.selected_tokens # {} THEN nav_delete_selected_tokens(s)
                 ELSE s
    IN  IF hovered THEN nav_delete_selected_entity(first) ELSE first

\* the entity popup branch of MOUSEBUTTONDOWN, by the popup's result
nav_entity_popup_click(s, result) ==
    IF result \in EntityTypes THEN [s EXCEPT !.selected_entity_type = result]
    ELSE IF result = "save" /\ s.selected_entity_type # NoType
         THEN [nav_create_new_entity(s) EXCEPT !.entity_popup_visible = FALSE]
    ELSE IF result = "cancel"
         THEN nav_render_document([s EXCEPT !.selected_tokens = {},
                                            !.entity_popup_visible = FALSE])
    ELSE s

---------------------------------------------------------------------------
(* SpecNav: the legacy editor of src/navigation.py under user events.      *)
(* Relations come with the document; dragging a new one is left out.       *)

\* the number of user events of a session with the legacy editor
MaxNavEvents == 7

\* undo of a token deletion can add entities and relations
MaxNavEntities == 4
MaxNavRelations == 3

NavSentences == <<<<1, 2, 3>>, <<4>>>>

NavDocs ==
    {[sentences |-> NavSentences, ner |-> <<>>, relations |-> <<>>],
     [sentences |-> NavSentences,
      ner |-> <<<<Entity(1, 1, "X"), Entity(2, 2, "Y")>>, <<>>>>,
      relations |-> <<<<Relation(<<1, 1, 2, 2, "R">>, NoObj)>>, <<>>>>],
     [sentences |-> NavSentences,
      ner |-> <<<<Entity(0, 0, "X")>>, <<Entity(3, 3, "Y")>>>>,
      relations |-> <<<<Relation(<<0, 0, 3, 3, "R">>, NoObj)>>, <<>>>>],
     [sentences |-> <<<<1, 2>>>>, ner |-> <<>>, relations |-> <<>>]}

\* the tokens the pointer can be on
NavPoints == {rendered_tokens[i].global_idx : i \in DOMAIN rendered_tokens}

NavStep(name, s, snapshot) ==
    /\ clock < MaxNavEvents
    /\ name = "event" => s # St
    /\ NumEntities(s.doc) <= MaxNavEntities
    /\ NumRelations(s.doc) <= MaxNavRelations
    /\ Becomes(s)
    /\ last' = name
    /\ pre' = snapshot
    /\ clock' = clock + 1
    /\ UNCHANGED probe

InitNav ==
    /\ \E d \in NavDocs : Is(nav_render_document(Fresh(d, InitContainer)))
    /\ last = "init"
    /\ pre = NoPre
    /\ probe = NoProbe
    /\ clock = 0

NavMouseDown ==
    \E g \in NavPoints : NavStep("event", nav_mouse_down(St, g), NoPre)

NavMouseUp ==
    /\ NavStep("event", handle_mouse_up_selection(St), NoPre)

NavMouseMotion ==
    \E g \in NavPoints : NavStep("event", handle_mouse_motion_selection(St, g), NoPre)

NavPopupOption ==
    /\ entity_popup_visible
    /\ \E type \in EntityTypes :
          NavStep("event", nav_entity_popup_click(St, type), NoPre)

NavPopupSave ==
    /\ entity_popup_visible
    /\ NavStep(EntitySaveOp, nav_entity_popup_click(St, "save"), Snapshot)

NavPopupCancel ==
    /\ entity_popup_visible
    /\ NavStep("event", nav_entity_popup_click(St, "cancel"), NoPre)

NavKeyD ==
    /\ \E hovered \in {FALSE, TRUE} :
          NavStep(KeyDOp, nav_key_d(St, hovered), Snapshot)

\* the previous and next document buttons: load_document of another document
\* of the collection. The stacks and the selection are kept; the documents of
\* the collection are as loaded as long as nothing was journaled.
NavLoad ==
    /\ undo_stack = <<>>
    /\ redo_stack = <<>>
    /\ \E d \in NavDocs \ {doc} :
          NavStep("load", nav_render_document([St EXCEPT !.doc = d]), NoPre)

NavUndo ==
    /\ ~undo_disabled
    /\ NavStep("undo", nav_undo(St), Snapshot)

NavRedo ==
    /\ ~redo_disabled
    /\ NavStep("redo", nav_redo(St), Snapshot)

NextNav ==
    \/ NavMouseDown
    \/ NavMouseUp
    \/ NavMouseMotion
    \/ NavPopupOption
    \/ NavPopupSave
    \/ NavPopupCancel
    \/ NavKeyD
    \/ NavLoad
    \/ NavUndo
    \/ NavRedo

SpecNav == InitNav /\ [][NextNav]_vars

---------------------------------------------------------------------------
(* Claims about token deletion in src/navigation.py *)

\* C4: after delete_selected_tokens on the selection S, every entity and
\* every relation that is over no token of S has each of its indices
\* lowered by the number of indices of S below it, for any S, runs of
\* adjacent tokens included.
C4_ShiftByCount ==
    [][last' = "delete_tokens" =>
         LET S == selected_tokens
             over(a, b) == \E i \in S : a <= i /\ i <= b
             down(v) == v - Cardinality({i \in S : i < v})
             ents(b) == SelectSeq(BucketLists(doc.ner, EntityList)[b],
                                  LAMBDA e : ~over(e[1], e[2]))
             rels(b) == SelectSeq(BucketLists(doc.relations, RelationList)[b],
                                  LAMBDA r : ~over(r[1], r[2]) /\ ~over(r[3], r[4]))
         IN  /\ BucketLists(doc'.ner, EntityList) =
                  [b \in DOMAIN doc.ner |->
                     [i \in DOMAIN ents(b) |->
                        <<down(ents(b)[i][1]), down(ents(b)[i][2]), ents(b)[i][3]>>]]
             /\ BucketLists(doc'.relations, RelationList) =
                  [b \in DOMAIN doc.relations |->
                     [i \in DOMAIN rels(b) |->
                        <<down(rels(b)[i][1]), down(rels(b)[i][2]),
                          down(rels(b)[i][3]), down(rels(b)[i][4]), rels(b)[i][5]>>]]]_vars

\* C5: delete_selected_tokens on the selection S removes every entity that
\* is over a token of S, and leaves every entity that ends before the first
\* token of S as it was.
C5_OverlappingRemoved ==
    [][last' = "delete_tokens" =>
         LET S == selected_tokens
             first == CHOOSE i \in S : \A j \in S : i <= j
             clear(e) == \A i \in S : i < e[1] \/ e[2] < i
             before(e) == e[2] < first
             was == BucketLists(doc.ner, EntityList)
             now == BucketLists(doc'.ner, EntityList)
         IN  /\ DOMAIN now = DOMAIN was
             /\ \A b \in DOMAIN was :
                   /\ Len(now[b]) <= Len(SelectSeq(was[b], clear))
                   /\ SelectSeq(now[b], before) = SelectSeq(was[b], before)]_vars

C5_Witness ==
    /\ last = "delete_tokens"
    /\ \E b \in DOMAIN pre.doc.ner : \E i \in DOMAIN pre.doc.ner[b] :
          \E g \in pre.selected_tokens :
             pre.doc.ner[b][i].s <= g /\ g <= pre.doc.ner[b][i].e
    /\ \E b \in DOMAIN pre.doc.ner : \E i \in DOMAIN pre.doc.ner[b] :
          /\ \A g \in pre.selected_tokens : pre.doc.ner[b][i].e < g
          /\ \E k \in DOMAIN doc.ner[b] :
                EntityList(doc.ner[b][k]) = EntityList(pre.doc.ner[b][i])

\* C6: undo of a token deletion gives the sentences back exactly as they
\* were, with no extra empty token, also when the deleted token was the last
\* of its sentence.
C6_UndoRestoresSentences ==
    [][(last = "delete_tokens" /\ last' = "undo") =>
          doc'.sentences = pre.doc.sentences]_vars

\* C10: starting from a document whose entities have pairwise different
\* spans, no sequence of entity creations, entity deletions, token
\* deletions, undos and redos gives two entities with the same
\* (start, end).
C10_UniqueSpans ==
    LET ents == Flatten(doc.ner)
    IN  \A i, j \in DOMAIN ents :
           (ents[i].s = ents[j].s /\ ents[i].e = ents[j].e) => i = j

---------------------------------------------------------------------------
(* Claims about the handlers of src/entity_annotator.py *)

\* C11: confirming type T for the selected tokens S re-types the entity with
\* span (min S, max S) when there is one and changes nothing else of the
\* document; otherwise ner is padded with empty buckets up to the number of
\* sentences and the one entity [min S, max S, T] is appended to bucket 0,
\* every other entity, the relations and the sentences staying as they were.
C11_ConfirmEntityType ==
    [][LET start_idx == Min(selected_tokens)
           end_idx == Max(selected_tokens)
           T == selected_entity_type
           was == BucketLists(doc.ner, EntityList)
           now == BucketLists(doc'.ner, EntityList)
           pad == was \o [i \in 1..(Len(doc.sentences) - Len(was)) |-> <<>>]
       IN  /\ last' = "overwrite_entity" =>
                /\ now = [b \in DOMAIN was |-> [i \in DOMAIN was[b] |->
                            IF was[b][i][1] = start_idx /\ was[b][i][2] = end_idx
                            THEN <<start_idx, end_idx, T>> ELSE was[b][i]]]
                /\ doc'.relations = doc.relations
                /\ doc'.sentences = doc.sentences
           /\ last' = "add_entity" =>
                /\ now = [pad EXCEPT ![1] = Append(@, <<start_idx, end_idx, T>>)]
                /\ BucketLists(doc'.relations, RelationList) =
                      BucketLists(doc.relations, RelationList)
                /\ doc'.sentences = doc.sentences]_vars

C11_Witness ==
    /\ last = "add_entity"
    /\ pre.doc.ner = <<>>
    /\ Len(doc.ner) = Len(doc.sentences)
    /\ Len(doc.ner[1]) = 1

\* C12: every entity created from a token selection lies within one
\* sentence: its start and its end are tokens of the same sentence, and
\* start <= end.
C12_EntityWithinSentence ==
    [][last' = "add_entity" =>
         LET start_idx == Min(selected_tokens)
             end_idx == Max(selected_tokens)
         IN  /\ start_idx <= end_idx
             /\ \E n \in 1..Len(doc.sentences) :
                   /\ SumLen(doc.sentences, n - 1) <= start_idx
                   /\ end_idx < SumLen(doc.sentences, n)]_vars

\* C13: a pointer-up event leaves the editor idle, with is_selecting false
\* and dragging_relation false, in whatever state the event arrives, also
\* after a key press that cleared the token selection during the gesture.
C13_PointerUpIdle ==
    \A pos \in Points :
        /\ ~handle_mouse_up(St, pos).is_selecting
        /\ ~handle_mouse_up(St, pos).dragging_relation

\* C14: while tokens are being selected, a pointer move over a token makes
\* the selection the inclusive range between the anchor and that token,
\* forwards or backwards; a move over no token leaves the selection as it
\* was.
C14_SelectionRange ==
    \A pos \in Points :
        (is_selecting /\ selection_start_token # NoEntity) =>
            LET over == {i \in DOMAIN rendered_tokens :
                            collidepoint(rendered_tokens[i].rect, pos)}
                anchor == selection_start_token.global_idx
                after == handle_mouse_motion(St, pos).selected_tokens
            IN  IF over = {} THEN after = selected_tokens
                ELSE \E i \in over :
                        LET current == rendered_tokens[i].global_idx
                        IN  after = {g \in 0..(anchor + current) :
                                        \/ anchor <= g /\ g <= current
                                        \/ current <= g /\ g <= anchor}

C14_Witness ==
    /\ is_selecting
    /\ selection_start_token # NoEntity
    /\ selection_start_token.global_idx = 1
    /\ selected_tokens = {0, 1}
    /\ last = "event"

\* C15: a pointer-up that ends a relation drag over the source entity or
\* over no entity opens no relation prompt and changes neither the document
\* nor the undo and redo stacks; the prompt opens only when the pointer is
\* over an entity whose span is not the source's.
C15_DragCancel ==
    \A pos \in Points :
        dragging_relation =>
            LET under == {i \in DOMAIN rendered_entities :
                             \E k \in DOMAIN rendered_entities[i].rect.rects :
                                 collidepoint(rendered_entities[i].rect.rects[k], pos)}
                other == {i \in under :
                             entity_key(rendered_entities[i].start,
                                        rendered_entities[i].end) # drag_source_key}
                after == handle_mouse_up(St, pos)
            IN  /\ after.doc = doc
                /\ after.undo_stack = undo_stack
                /\ after.redo_stack = redo_stack
                /\ other = {} => after.relation_popup_visible = relation_popup_visible
                /\ (after.relation_popup_visible /\ ~relation_popup_visible)
                      => other # {}

C15_Witness ==
    /\ last = "drag_end"
    /\ ~relation_popup_visible
    /\ ~dragging_relation
    /\ pre.doc = doc
    /\ pre.undo_stack = undo_stack

\* C16: selected_entities never holds more than one key; a left click on an
\* entity that is not selected makes it the only selected entity, and a left
\* click on the selected entity empties the selection.
C16_SingleSelection ==
    /\ Len(selected_entities) <= 1
    /\ \A pos \in Points :
          LET under == {i \in DOMAIN rendered_entities :
                           \E k \in DOMAIN rendered_entities[i].rect.rects :
                               collidepoint(rendered_entities[i].rect.rects[k], pos)}
              after == handle_mouse_down(St, 1, pos).selected_entities
          IN  (under # {} /\ ~entity_popup_visible /\ ~relation_popup_visible) =>
                 \E i \in under :
                    LET key == entity_key(rendered_entities[i].start,
                                          rendered_entities[i].end)
                    IN  IF \E j \in DOMAIN selected_entities : selected_entities[j] = key
                        THEN after = <<>>
                        ELSE after = <<key>>

C16_Witness ==
    /\ last = "event"
    /\ selected_entities = <<entity_key(1, 1)>>
    /\ ~dragging_relation
    /\ clock >= 2

\* C17: D with a token selection and no selected entity removes exactly the
\* selected tokens from their sentences; D with a selected entity performs
\* the cascade delete of that entity.
C17_KeyD ==
    [][/\ last' = "delete_tokens" =>
            LET keep(n) == {i \in 1..Len(doc.sentences[n]) :
                               (SumLen(doc.sentences, n - 1) + i - 1) \notin selected_tokens}
            IN  doc'.sentences =
                   [n \in DOMAIN doc.sentences |->
                      [k \in 1..Cardinality(keep(n)) |->
                         doc.sentences[n][SortedSeq(keep(n))[k]]]]
       /\ last' = "delete_entity" =>
            LET span == key_span(selected_entities[1])
            IN  /\ FindEntity(doc'.ner, span[1], span[2]) = <<>>
                /\ NumEntities(doc') = NumEntities(doc) - 1
                /\ doc'.sentences = doc.sentences]_vars

\* C18: the undo stack and the redo stack never hold more than
\* MAX_UNDO_HISTORY records; a record pushed onto a full undo stack evicts
\* the oldest record and the newer ones stay in their order under it.
C18_BoundedHistory ==
    [][/\ Len(undo_stack') <= MAX_UNDO_HISTORY
       /\ Len(redo_stack') <= MAX_UNDO_HISTORY
       /\ (last' \in {"add_entity", "add_relation", "delete_entity"}
             /\ Len(undo_stack) = MAX_UNDO_HISTORY) =>
            /\ Len(undo_stack') = MAX_UNDO_HISTORY
            /\ \A i \in 1..(MAX_UNDO_HISTORY - 1) :
                  undo_stack'[i].id = undo_stack[i + 1].id
            /\ \A i \in 1..MAX_UNDO_HISTORY :
                  undo_stack'[MAX_UNDO_HISTORY].id # undo_stack[i].id]_vars

C18_Witness ==
    /\ last \in {"add_entity", "add_relation", "delete_entity"}
    /\ Len(pre.undo_stack) = MAX_UNDO_HISTORY
    /\ Len(undo_stack) = MAX_UNDO_HISTORY

---------------------------------------------------------------------------
(* Claims about the legacy editor of src/navigation.py *)

\* C19: delete_selected_tokens with a selection none of whose indices is a
\* token of the document leaves the sentences, the entities, the relations
\* and both stacks as they were, and the number of deleted tokens it reports
\* is the number of tokens it removed.
C19_UnresolvedSelection ==
    [][(/\ last' = "delete_tokens"
        /\ \A g \in selected_tokens :
              g >= SumLen(doc.sentences, Len(doc.sentences))) =>
          /\ doc'.sentences = doc.sentences
          /\ BucketLists(doc'.ner, EntityList) = BucketLists(doc.ner, EntityList)
          /\ BucketLists(doc'.relations, RelationList) =
                BucketLists(doc.relations, RelationList)
          /\ undo_stack' = undo_stack
          /\ redo_stack' = redo_stack
          /\ reported_tokens(St) = SumLen(doc.sentences, Len(doc.sentences))
                                   - SumLen(doc'.sentences, Len(doc'.sentences))]_vars

---------------------------------------------------------------------------
(* save_annotations of src/entity_annotator.py, and SpecSave: the editor   *)
(* under user events with Ctrl+S and the save button among them            *)

\* what the database does with a save: save_document returns True, returns
\* False after its rollback, or an exception reaches save_annotations
SaveOutcomes == {"saved", "failed", "raised"}

\* a save that reports every outcome as a success
save_annotations_AlwaysSaved(s, outcome) ==
    [s |-> [s EXCEPT !.save_status = STATUS_SAVED], returns |-> TRUE, raises |-> FALSE]

\* save_annotations: the state it leaves, the value it returns and whether
\* an exception leaves it; the whole body is inside try / except Exception.
\* "Saving..." of show_immediate_feedback is overwritten before it returns.
save_annotations(s, outcome) ==
    IF s.current_file_path = NoPath
    THEN [s |-> [s EXCEPT !.save_status = STATUS_NO_FILE],
          returns |-> FALSE, raises |-> FALSE]
    ELSE IF outcome = "saved"
    THEN [s |-> [s EXCEPT !.save_status = STATUS_SAVED,
                          !.database = save_document(@, as_json(s.doc_id, s.doc))],
          returns |-> TRUE, raises |-> FALSE]
    ELSE IF outcome = "failed"
    THEN [s |-> [s EXCEPT !.save_status = STATUS_SAVE_FAILED],
          returns |-> FALSE, raises |-> FALSE]
    ELSE [s |-> [s EXCEPT !.save_status = STATUS_SAVE_ERROR],
          returns |-> FALSE, raises |-> FALSE]

\* the number of user events of a session with saves
MaxSaveEvents == 7

\* the document of an editor that has opened no file
NoDocument == [sentences |-> <<>>, ner |-> <<>>, relations |-> <<>>]

\* the attributes after EntityAnnotator.__init__, before a file is opened
Unloaded ==
    [Fresh(NoDocument, InitContainer) EXCEPT !.save_status = "",
                                             !.current_file_path = NoPath,
                                             !.doc_id = NoId,
                                             !.database = EmptyDatabase]

InitSave ==
    /\ \/ \E d \in EditorDocs : Is(Constructed(d, InitContainer))
       \/ Is(Unloaded)
    /\ last = "init"
    /\ pre = NoPre
    /\ probe = NoProbe
    /\ clock = 0

\* a save fails with no file loaded, with save_document returning False and
\* with an exception
SaveOp(outcome) ==
    IF current_file_path = NoPath \/ outcome # "saved" THEN "save_failed" ELSE "save"

\* Ctrl+S or the save button
Save ==
    /\ clock < MaxSaveEvents
    /\ \E outcome \in SaveOutcomes :
          Step(SaveOp(outcome), save_annotations(St, outcome).s, Snapshot)

EditorEvent ==
    /\ clock < MaxSaveEvents
    /\ Next

NextSave ==
    \/ Save
    \/ EditorEvent

SpecSave == InitSave /\ [][NextSave]_vars

\* C20: a save that fails, with no file loaded, with save_document returning
\* false or with an exception, leaves the document, the selection and both
\* stacks as they were, reports the failure in save_status, and lets no
\* exception out of save_annotations.
C20_FailedSave ==
    [][last' = "save_failed" =>
         /\ doc' = doc
         /\ selected_tokens' = selected_tokens
         /\ selected_entities' = selected_entities
         /\ undo_stack' = undo_stack
         /\ redo_stack' = redo_stack
         /\ save_status' \in {STATUS_NO_FILE, STATUS_SAVE_FAILED, STATUS_SAVE_ERROR}
         /\ \A outcome \in SaveOutcomes :
               ~save_annotations(St, outcome).raises]_vars

C20_Witness ==
    /\ last = "save_failed"
    /\ save_status = STATUS_SAVE_ERROR
    /\ undo_stack # <<>>
    /\ selected_entities # <<>>
    /\ pre.doc = doc

---------------------------------------------------------------------------
(* The editor over an imported database: a JSONL file is imported, the     *)
(* documents are visited and saved.                                        *)

MaxLines == 3
MaxDbEvents == 4

STATUS_IMPORTED == "Imported"

\* the heights a VIDEORESIZE event gives the window
LayoutHeights == {200, LayoutHeight}

\* the lines a JSONL file is made of: a line that is no JSON, a blank line,
\* a document without sentences, two documents and two records an INSERT
\* fails on, the first after its sentences and one entity are written, the
\* second at its relation
DbLines ==
    { [kind |-> "garbage"],
      [kind |-> "blank"],
      [kind |-> "document", doc_id |-> "e",
       sentences |-> <<>>, ner |-> <<>>, relations |-> <<>>],
      [kind |-> "document", doc_id |-> "a",
       sentences |-> <<<<3>>, <<3>>>>,
       ner |-> << <<>>, << <<1, 1, "X">> >> >>,
       relations |-> << <<>>, <<>> >>],
      [kind |-> "document", doc_id |-> NoId,
       sentences |-> <<<<3, 3>>>>,
       ner |-> << << <<1, 1, "Y">>, <<0, 0, "X">> >> >>,
       relations |-> << << <<0, 0, 1, 1, "R">> >> >>],
      [kind |-> "document", doc_id |-> "m",
       sentences |-> <<<<3>>, <<3>>>>,
       ner |-> << << <<0, 0, "X">>, <<NotInteger, 0, "Y">> >>, <<>> >>,
       relations |-> << <<>>, <<>> >>],
      [kind |-> "document", doc_id |-> NoId,
       sentences |-> <<<<3, 3>>>>,
       ner |-> << << <<0, 0, "X">>, <<1, 1, "Y">> >> >>,
       relations |-> << << <<0, 0, NotInteger, 1, "R">> >> >>] }

\* the doc_id import_from_jsonl gives the record of the line at index idx
LineId(idx, line) == IF line.doc_id = NoId THEN DefaultId(idx) ELSE line.doc_id

\* the files of at most MaxLines lines whose records have distinct doc_ids
Files ==
    {f \in UNION {[1..n -> DbLines] : n \in 1..MaxLines} :
        \A i, j \in DOMAIN f :
            (i < j /\ f[i].kind = "document" /\ f[j].kind = "document")
                => LineId(i - 1, f[i]) # LineId(j - 1, f[j])}

\* self.doc of the document get_document returns
from_json(document) ==
    [sentences |-> document.sentences,
     ner |-> [b \in DOMAIN document.ner |->
                [i \in DOMAIN document.ner[b] |->
                    Entity(document.ner[b][i][1], document.ner[b][i][2],
                           document.ner[b][i][3])]],
     relations |-> [b \in DOMAIN document.relations |->
                [i \in DOMAIN document.relations[b] |->
                    Relation(document.relations[b][i], NoObj)]]]

\* load_document(index)
load_document(s, index) ==
    LET doc_ids == get_document_ids(s.database)
    IN  IF index < 0 \/ index >= Len(doc_ids) THEN s
        ELSE LET document == get_document(s.database, doc_ids[index + 1])
             IN  IF document = None THEN s
                 ELSE render_document([s EXCEPT !.doc_id = document.doc_id,
                                                !.doc = from_json(document),
                                                !.doc_scroll_y = 0,
                                                !.target_scroll_y = 0,
                                                !.selected_entities = <<>>,
                                                !.selected_tokens = {}])

\* import_and_use_database: the file is imported into a new database and
\* the first document, if there is one, is loaded
import_and_use_database(s, file) ==
    LET opened == [s EXCEPT !.database = import_from_jsonl(EmptyDatabase, file).db,
                            !.current_file_path = DbPath]
    IN  [load_document(opened, 0) EXCEPT !.save_status = STATUS_IMPORTED]

\* self.current_doc_index
current_doc_index(s) ==
    LET doc_ids == get_document_ids(s.database)
    IN  CHOOSE index \in 0..(Len(doc_ids) - 1) : doc_ids[index + 1] = s.doc_id

InitDb ==
    /\ Is(Unloaded)
    /\ last = "init"
    /\ pre = NoPre
    /\ probe = NoProbe
    /\ clock = 0

\* Ctrl+O on a JSONL file that has no database yet
DbImport ==
    /\ current_file_path = NoPath
    /\ \E file \in Files :
          Step("import", import_and_use_database(St, file),
               [valid |-> FALSE, file |-> file,
                count |-> import_from_jsonl(EmptyDatabase, file).imported])

\* the previous and next document buttons and the jump to a document
DbLoad ==
    /\ clock < MaxDbEvents
    /\ database.documents # {}
    /\ \E index \in 0..(Cardinality(database.documents) - 1) :
          /\ index # current_doc_index(St)
          /\ Step("load", load_document(St, index), NoPre)

DbSave ==
    /\ clock < MaxDbEvents
    /\ Save

\* VIDEORESIZE to another height
DbResize ==
    /\ clock < MaxDbEvents
    /\ \E height \in LayoutHeights :
          /\ doc_container # ResizedContainer(DEFAULT_WINDOW_WIDTH, height)
          /\ Step("resize",
                  render_document(
                      [St EXCEPT !.doc_container =
                                    ResizedContainer(DEFAULT_WINDOW_WIDTH, height)]),
                  NoPre)

NextDb ==
    \/ DbImport
    \/ DbLoad
    \/ DbSave
    \/ DbResize

SpecDb == InitDb /\ [][NextDb]_vars

---------------------------------------------------------------------------
(* Claims about src/db_manager.py *)

\* a record every INSERT of which succeeds, with one bucket per sentence
WellFormed(line) ==
    /\ line.kind = "document"
    /\ Len(line.ner) = Len(line.sentences)
    /\ Len(line.relations) = Len(line.sentences)
    /\ \A b \in DOMAIN line.sentences :
          /\ \A i \in DOMAIN line.ner[b] :
                Len(line.ner[b][i]) = 3 /\ ~rejected(<<0, 0>> \o line.ner[b][i])
          /\ \A i \in DOMAIN line.relations[b] :
                Len(line.relations[b][i]) = 5
                    /\ ~rejected(<<0, 0>> \o line.relations[b][i])

\* get_document of doc_id returns the sentences of the record in order and,
\* bucket by bucket, its entities and its relations
Retrievable(db, doc_id, line) ==
    LET got == get_document(db, doc_id)
    IN  /\ got # None
        /\ got.sentences = line.sentences
        /\ \A b \in DOMAIN line.sentences :
              /\ Range(got.ner[b]) = Range(line.ner[b])
              /\ Range(got.relations[b]) = Range(line.relations[b])

BucketSet(buckets, b) == IF b \in DOMAIN buckets THEN Range(buckets[b]) ELSE {}

\* the JSON document got has the sentences of document in order and, bucket
\* by bucket, the same entities and the same relations
SameStored(got, document) ==
    /\ got # None
    /\ got.sentences = document.sentences
    /\ \A b \in DOMAIN got.ner \cup DOMAIN document.ner :
          BucketSet(got.ner, b) = BucketSet(document.ner, b)
    /\ \A b \in DOMAIN got.relations \cup DOMAIN document.relations :
          BucketSet(got.relations, b) = BucketSet(document.relations, b)

---------------------------------------------------------------------------
(* Claims about the rendering of src/entity_annotator.py *)

\* the relations of the document both of whose endpoint spans are keys of
\* entity_elements, in document order
Drawable(ents, relations) ==
    LET both(r) == /\ entity_key(r.ss, r.se) \in entity_elements(ents)
                   /\ entity_key(r.ts, r.te) \in entity_elements(ents)
    IN  SelectSeq(Flatten(relations), both)

\* C23: render_document renders exactly the relations both of whose endpoint
\* spans are keys of entity_elements, each between the entities rendered for
\* its two spans; a relation with a missing endpoint is left out of
\* rendered_relations and stays in the document
C23_DanglingOmitted ==
    LET after == render_document(St)
        shown == render_relations(after.rendered_entities, after.doc.relations)
        drawable == Drawable(after.rendered_entities, doc.relations)
    IN  /\ after.doc = doc
        /\ Len(shown) = Len(drawable)
        /\ \A i \in DOMAIN shown :
              /\ <<shown[i].source.start, shown[i].source.end>>
                    = <<drawable[i].ss, drawable[i].se>>
              /\ <<shown[i].target.start, shown[i].target.end>>
                    = <<drawable[i].ts, drawable[i].te>>
              /\ shown[i].type = drawable[i].t

\* a document rendered with a relation whose source is rendered and whose
\* target is the span of no rendered entity
C23_Witness ==
    /\ last = "resize"
    /\ NumRelations(doc) = 1
    /\ rendered_entities # <<>>
    /\ LET r == Flatten(doc.relations)[1]
       IN  /\ entity_key(r.ss, r.se) \in entity_elements(rendered_entities)
           /\ entity_key(r.ts, r.te) \notin entity_elements(rendered_entities)
    /\ render_relations(rendered_entities, doc.relations) = <<>>

\* the token rectangles, the entity rectangles and the scroll limit of
\* program state s
Geometry(s) ==
    [tokens |-> [i \in DOMAIN s.rendered_tokens |-> s.rendered_tokens[i].rect],
     entities |-> [i \in DOMAIN s.rendered_entities |-> s.rendered_entities[i].rect],
     max_scroll_y |-> s.max_scroll_y]

\* C24: after render_document the token rectangles, the entity rectangles
\* and max_scroll_y are those the same document gets in the same container
\* in an editor with no selection and no history
C24_LayoutDeterministic ==
    last \in {"import", "load", "resize"} =>
        Geometry(St) = Geometry(Constructed(doc, doc_container))

---------------------------------------------------------------------------
(* Claims about redo *)

\* the records of a stack by identity, whatever became of their contents
Identities(stack) == [i \in DOMAIN stack |-> stack[i].id]

\* C25: redo removes exactly the top record of the redo stack and pushes that
\* record onto the undo stack; the other records of both stacks stay in
\* place and in order, whatever the kind of the record
C25_RedoMovesTop ==
    [][(last' = "redo" /\ redo_stack # <<>>) =>
          /\ Identities(redo_stack') =
                SubSeq(Identities(redo_stack), 1, Len(redo_stack) - 1)
          /\ Identities(undo_stack') =
                Append(Identities(undo_stack), redo_stack[Len(redo_stack)].id)]_vars

---------------------------------------------------------------------------
(* Claims about the word wrap of render_document *)

\* the rendered tokens of sentence sent_idx
SentenceTokens(sent_idx) ==
    SelectSeq(rendered_tokens, LAMBDA t : t.sent_idx = sent_idx)

\* the number of lines sentence sent_idx takes
SentenceLines(sent_idx) ==
    Max({1, Cardinality({rendered_tokens[k].rect.y :
                            k \in {j \in DOMAIN rendered_tokens :
                                      rendered_tokens[j].sent_idx = sent_idx}})})

RECURSIVE LinesBefore(_)
LinesBefore(sent_idx) ==
    IF sent_idx = 0 THEN 0 ELSE LinesBefore(sent_idx - 1) + SentenceLines(sent_idx - 1)

\* C26: within a sentence a token starts a new line exactly when the width
\* used by the tokens already on the line plus its own width exceeds the
\* line width; the first token of a sentence is placed at the left margin of
\* the sentence's first line whatever its width; every non-empty token is
\* placed exactly once; a token that is not the first of its line ends
\* within the left margin plus the line width
C26_WordWrap ==
    LET left == doc_container.x + 10
        max_line_width == doc_container.w - 20
        width(t) == font_size(t.text) + TOKEN_PADDING
    IN  /\ Len(rendered_tokens) =
              Cardinality({p \in Positions(doc.sentences) :
                              TextAt(doc.sentences, p) # 0})
        /\ \A sent_idx \in 0..(Len(doc.sentences) - 1) :
              LET toks == SentenceTokens(sent_idx)
              IN  \A k \in DOMAIN toks :
                      LET t == toks[k]
                      IN  /\ t.rect.w = width(t)
                          /\ t.rect.h = line_height
                          /\ IF k = 1
                             THEN /\ t.rect.x = left
                                  /\ t.rect.y = doc_container.y + 10
                                        + LinesBefore(sent_idx) * line_height
                                        + sent_idx * SENTENCE_SPACING
                             ELSE LET used == right(toks[k - 1].rect) + 2 - left
                                  IN  IF used + width(t) > max_line_width
                                      THEN /\ t.rect.x = left
                                           /\ t.rect.y = toks[k - 1].rect.y + line_height
                                      ELSE /\ t.rect.x = right(toks[k - 1].rect) + 2
                                           /\ t.rect.y = toks[k - 1].rect.y
                          /\ t.rect.x # left => right(t.rect) <= left + max_line_width

\* a token wider than the line placed at the left margin, and a token that
\* starts a new line within its sentence
C26_Witness ==
    /\ last = "resize"
    /\ \E k \in DOMAIN rendered_tokens :
          /\ rendered_tokens[k].rect.x = doc_container.x + 10
          /\ rendered_tokens[k].rect.w > doc_container.w - 20
    /\ \E k \in DOMAIN rendered_tokens :
          /\ k > 1
          /\ rendered_tokens[k].sent_idx = rendered_tokens[k - 1].sent_idx
          /\ rendered_tokens[k].rect.y > rendered_tokens[k - 1].rect.y

---------------------------------------------------------------------------
(* Claims about the hit tests *)

\* the point p lies in the rectangle r
Inside(r, p) ==
    /\ r.x <= p[1] /\ p[1] <= r.x + r.w - 1
    /\ r.y <= p[2] /\ p[2] <= r.y + r.h - 1

\* some row of rendered entity n holds p
EntityHolds(n, p) ==
    \E k \in DOMAIN rendered_entities[n].rect.rects :
        Inside(rendered_entities[n].rect.rects[k], p)

\* C27: check_entity_hover(p) is None exactly when no rectangle of a rendered
\* entity holds p, and otherwise the first rendered entity one of whose
\* rectangles (any row of a multi-line entity) holds p; check_token_hover(p)
\* is likewise the first rendered token whose rectangle holds p
C27_FirstHit ==
    \A p \in Points :
        LET entity == check_entity_hover(rendered_entities, p)
            token == check_token_hover(rendered_tokens, p)
        IN  /\ IF \A n \in DOMAIN rendered_entities : ~EntityHolds(n, p)
               THEN entity = NoEntity
               ELSE \E n \in DOMAIN rendered_entities :
                       /\ entity = rendered_entities[n]
                       /\ EntityHolds(n, p)
                       /\ \A m \in 1..(n - 1) : ~EntityHolds(m, p)
            /\ IF \A n \in DOMAIN rendered_tokens : ~Inside(rendered_tokens[n].rect, p)
               THEN token = NoEntity
               ELSE \E n \in DOMAIN rendered_tokens :
                       /\ token = rendered_tokens[n]
                       /\ Inside(rendered_tokens[n].rect, p)
                       /\ \A m \in 1..(n - 1) : ~Inside(rendered_tokens[m].rect, p)

\* a point held by two entities, the first of them a multi-line entity that
\* holds it in a row other than its first
C27_Witness ==
    \E p \in Points :
        \E n \in DOMAIN rendered_entities :
            /\ check_entity_hover(rendered_entities, p) = rendered_entities[n]
            /\ rendered_entities[n].rect.multi_line
            /\ ~Inside(rendered_entities[n].rect.rects[1], p)
            /\ \E m \in DOMAIN rendered_entities : m > n /\ EntityHolds(m, p)

---------------------------------------------------------------------------
(* The editor over a document that holds one span in two buckets *)

\* documents as a file can hold them: the span 0..0 in both buckets
SharedSpanDocs ==
    {[sentences |-> EditorSentences,
      ner |-> <<<<Entity(0, 0, "X")>>, <<Entity(0, 0, "Y")>>>>,
      relations |-> <<<<>>, <<>>>>]}

InitSharedSpan ==
    /\ \E d \in SharedSpanDocs : Is(Constructed(d, InitContainer))
    /\ last = "init"
    /\ pre = NoPre
    /\ probe = NoProbe
    /\ clock = 0

SpecSharedSpan == InitSharedSpan /\ [][Next]_vars

---------------------------------------------------------------------------
(* Claims about the removal of an entity by span *)

\* after is before without its first entity of the span, in bucket order,
\* and before itself when no entity has the span
RemovedFirstMatch(before, after, span) ==
    LET hit == FindEntity(before, span[1], span[2])
        expected == IF hit = <<>> THEN before
                    ELSE [before EXCEPT ![hit[1]] = RemoveAt(@, hit[2])]
    IN  BucketLists(after, EntityList) = BucketLists(expected, EntityList)

\* C28: the delete of the selected entity and the undo of an entity creation
\* remove exactly one entity, the first of the span across all buckets, and
\* leave every other entity where it is
C28_RemoveFirstMatch ==
    [][/\ last' = "delete_entity" =>
              RemovedFirstMatch(doc.ner, doc'.ner, key_span(selected_entities[1]))
       /\ (/\ last' = "undo"
           /\ undo_stack # <<>>
           /\ undo_stack[Len(undo_stack)].action = "add_entity") =>
              RemovedFirstMatch(doc.ner, doc'.ner,
                                <<undo_stack[Len(undo_stack)].entity[1],
                                  undo_stack[Len(undo_stack)].entity[2]>>)]_vars

---------------------------------------------------------------------------
(* Claims about the freshness of the hit-test geometry *)

\* the global indices of the non-empty tokens of the document
ShownIndices(d) ==
    {GlobalIndex(d.sentences, p) :
        p \in {q \in Positions(d.sentences) : TextAt(d.sentences, q) # 0}}

\* the spans of the entities of the document that hold a non-empty token, in
\* document order
ShownSpans(d) ==
    LET flat == Flatten(d.ner)
        shown(e) == \E g \in ShownIndices(d) : e.s <= g /\ g <= e.e
        kept == SelectSeq(flat, shown)
    IN  [i \in DOMAIN kept |-> <<kept[i].s, kept[i].e, kept[i].t>>]

\* rendered_entities and rendered_tokens are those of document d
GeometryOf(ents, toks, d) ==
    /\ [i \in DOMAIN ents |-> <<ents[i].start, ents[i].end, ents[i].type>>]
          = ShownSpans(d)
    /\ {toks[i].global_idx : i \in DOMAIN toks} = ShownIndices(d)
    /\ Len(toks) = Cardinality(ShownIndices(d))

\* C29: after every handler that changes the document (an entity created,
\* overwritten or deleted, a relation created, undo, redo) rendered_entities
\* holds exactly the entities of the document that have a non-empty token,
\* and rendered_tokens the non-empty tokens of the document
C29_GeometryCurrent ==
    [][doc' # doc => GeometryOf(rendered_entities', rendered_tokens', doc')]_vars

\* an entity brought back by redo and rendered again
C29_Witness ==
    /\ last = "redo"
    /\ pre.valid
    /\ NumEntities(doc) = NumEntities(pre.doc) + 1
    /\ Len(rendered_entities) = NumEntities(doc)

---------------------------------------------------------------------------
(* Claims about the exclusion of the two gestures *)

\* C30: a token selection and a relation drag are never in progress at the
\* same time, and the entity-type prompt and the relation-type prompt are
\* never visible at the same time
C30_OneGesture ==
    /\ ~(is_selecting /\ dragging_relation)
    /\ ~(entity_popup_visible /\ relation_popup_visible)

---------------------------------------------------------------------------
(* SpecSwitch: the editor over a database of two documents, under user     *)
(* events with the previous and next document buttons, Ctrl+S and the      *)
(* closing of the window among them                                        *)

\* the number of user events of a session that changes documents
MaxSwitchEvents == 6

\* the JSONL file the database is imported from
SwitchFile ==
    << [kind |-> "document", doc_id |-> "a",
        sentences |-> EditorSentences,
        ner |-> << << <<0, 0, "X">> >>, << <<1, 1, "Y">> >> >>,
        relations |-> << << <<0, 0, 1, 1, "R">> >>, <<>> >>],
       [kind |-> "document", doc_id |-> "e",
        sentences |-> EditorSentences,
        ner |-> << << <<1, 1, "X">> >>, <<>> >>,
        relations |-> << <<>>, <<>> >>] >>

InitSwitch ==
    /\ Is(import_and_use_database(Unloaded, SwitchFile))
    /\ last = "init"
    /\ pre = NoPre
    /\ probe = NoProbe
    /\ clock = 0

\* handle_events on pygame.QUIT: the database is closed, nothing is saved
\* and the main loop ends
handle_quit(s) == s

SwitchEdit ==
    /\ clock < MaxSwitchEvents
    /\ last # "quit"
    /\ Next

\* the previous and the next document button
SwitchLoad ==
    /\ clock < MaxSwitchEvents
    /\ last # "quit"
    /\ \E index \in {current_doc_index(St) - 1, current_doc_index(St) + 1} :
          /\ 0 <= index
          /\ index < Len(get_document_ids(database))
          /\ Step("load", load_document(St, index), Snapshot)

SwitchSave ==
    /\ clock < MaxSwitchEvents
    /\ last # "quit"
    /\ Save

SwitchQuit ==
    /\ clock < MaxSwitchEvents
    /\ last # "quit"
    /\ Step("quit", handle_quit(St), Snapshot)

NextSwitch ==
    \/ SwitchEdit
    \/ SwitchLoad
    \/ SwitchSave
    \/ SwitchQuit

SpecSwitch == InitSwitch /\ [][NextSwitch]_vars

\* C31: an undo or a redo that follows the load of another document leaves
\* the sentences, the entities and the relations of the loaded document as
\* load_document set them
C31_JournalOfOneDocument ==
    [][(last = "load" /\ last' \in {"undo", "redo"}) => SameDocument(doc', doc)]_vars

---------------------------------------------------------------------------
(* SpecScroll: the document view under the scroll wheel, the page keys,    *)
(* window resizes and the frames of the main loop                          *)

\* cfg.SCROLL_SPEED, in pixels
SCROLL_SPEED == 40

\* the number of input events of a scrolling session; frames are not counted
MaxScrollEvents == 4

\* the heights a VIDEORESIZE event gives the window: the document container
\* is 30, 100 and 430 pixels high
ScrollHeights == {200, 270, LayoutHeight}

\* a document of three lines, 126 pixels high, with a relation from its
\* first line to its last
ScrollDoc ==
    [sentences |-> <<<<3>>, <<3>>, <<3>>>>,
     ner |-> << <<Entity(0, 0, "X")>>, <<>>, <<Entity(2, 2, "Y")>> >>,
     relations |-> << <<Relation(<<0, 0, 2, 2, "R">>, NoObj)>>, <<>>, <<>> >>]

\* max(0, min(self.max_scroll_y, y)) on a position in tenths
clamp_scroll(s, y) == Max({0, Min({Tenths(s.max_scroll_y), y})})

\* handle_mouse_down on button 4 (scroll_dir 1) or 5 (scroll_dir -1) over
\* the document container, cfg.ENABLE_SMOOTH_SCROLLING being True
handle_scroll_wheel(s, scroll_dir) ==
    [s EXCEPT !.target_scroll_y =
                 clamp_scroll(s, @ - scroll_dir * Tenths(SCROLL_SPEED))]

\* handle_key_down on K_PAGEUP
handle_page_up(s) ==
    [s EXCEPT !.target_scroll_y = Max({0, @ - Tenths(150)})]

\* handle_key_down on K_PAGEDOWN
handle_page_down(s) ==
    [s EXCEPT !.target_scroll_y = Min({Tenths(s.max_scroll_y), @ + Tenths(150)})]

\* handle_events on VIDEORESIZE
handle_resize(s, width, height) ==
    render_document([s EXCEPT !.doc_container = ResizedContainer(width, height)])

\* abs(self.target_scroll_y - self.doc_scroll_y) > 0.5
scroll_pending(s) ==
    \/ s.target_scroll_y - s.doc_scroll_y > 5
    \/ s.doc_scroll_y - s.target_scroll_y > 5

\* whether a frame of the main loop calls render_document
frame_renders(s) == scroll_pending(s) \/ s.doc_scroll_y # s.target_scroll_y

\* self.doc_scroll_y after the smooth scrolling of one frame of run: the
\* position moves by scroll_diff * cfg.SMOOTH_SCROLL_FACTOR (0.2, kept to a
\* tenth of a pixel) and is clamped, or snaps to the target when it is
\* within half a pixel
smooth_scroll_y(s) ==
    LET scroll_diff == s.target_scroll_y - s.doc_scroll_y
        moved == s.doc_scroll_y + (IF scroll_diff >= 0 THEN (scroll_diff * 2) \div 10
                                   ELSE -(((-scroll_diff) * 2) \div 10))
    IN  IF scroll_pending(s) THEN clamp_scroll(s, moved) ELSE s.target_scroll_y

\* the smooth scrolling of one frame of run: both branches that assign
\* doc_scroll_y call render_document
update_smooth_scrolling(s) ==
    IF frame_renders(s)
    THEN render_document([s EXCEPT !.doc_scroll_y = smooth_scroll_y(s)])
    ELSE s

InitScroll ==
    /\ Is(Constructed(ScrollDoc, InitContainer))
    /\ last = "init"
    /\ pre = NoPre
    /\ probe = NoProbe
    /\ clock = 0

ScrollWheel ==
    /\ clock < MaxScrollEvents
    /\ \E scroll_dir \in {1, -1} :
          Step("wheel", handle_scroll_wheel(St, scroll_dir), Snapshot)

ScrollPage ==
    /\ clock < MaxScrollEvents
    /\ \/ Step("page", handle_page_up(St), Snapshot)
       \/ Step("page", handle_page_down(St), Snapshot)

ScrollResize ==
    /\ clock < MaxScrollEvents
    /\ \E height \in ScrollHeights :
          /\ doc_container # ResizedContainer(DEFAULT_WINDOW_WIDTH, height)
          /\ Step("resize", handle_resize(St, DEFAULT_WINDOW_WIDTH, height), Snapshot)

\* one pass of the main loop with no event in the queue
ScrollFrame ==
    \E s \in {update_smooth_scrolling(St)} :
        /\ Becomes(s)
        /\ last' = "frame"
        /\ UNCHANGED <<pre, probe, clock>>

NextScroll ==
    \/ ScrollWheel
    \/ ScrollPage
    \/ ScrollResize
    \/ ScrollFrame

SpecScroll == InitScroll /\ [][NextScroll]_vars

\* C32: after every event handler both scroll positions lie between 0 and
\* max_scroll_y
C32_ScrollWithinLimit ==
    last \in {"wheel", "page", "resize"} =>
        /\ 0 <= doc_scroll_y /\ doc_scroll_y <= Tenths(max_scroll_y)
        /\ 0 <= target_scroll_y /\ target_scroll_y <= Tenths(max_scroll_y)

\* what a frame does to the scroll position: the step of ScrollFrame on
\* doc_scroll_y and last, the layout left aside
FrameScroll ==
    /\ doc_scroll_y' = smooth_scroll_y(St)
    /\ last' = "frame"

\* the main loop keeps running: a frame that would move the view is taken.
\* Every ScrollFrame step is a FrameScroll step, and no other action of
\* NextScroll sets last to "frame".
SpecScrollFair == SpecScroll /\ WF_<<doc_scroll_y, last>>(FrameScroll)

\* C33: once the input events have ended the view settles: from some frame
\* on doc_scroll_y equals target_scroll_y and a frame no longer calls
\* render_document
C33_ScrollSettles == <>[](doc_scroll_y = target_scroll_y /\ ~frame_renders(St))

---------------------------------------------------------------------------
(* Claims about the undo and redo buttons *)

\* C34: the Undo button is disabled exactly when undo_stack is empty and the
\* Redo button exactly when redo_stack is empty, and undo and redo on an
\* empty stack leave the program state as it is
C34_ButtonsFollowStacks ==
    /\ undo_disabled <=> (undo_stack = <<>>)
    /\ redo_disabled <=> (redo_stack = <<>>)
    /\ (undo_stack = <<>>) => (undo(St) = St)
    /\ (redo_stack = <<>>) => (redo(St) = St)

\* an undo has emptied the undo stack of a session with a record on it
C34_Witness ==
    /\ last = "undo"
    /\ pre.undo_stack # <<>>
    /\ undo_stack = <<>>
    /\ undo_disabled
    /\ redo_stack # <<>>
    /\ ~redo_disabled

---------------------------------------------------------------------------
(* Claims about the entity-type prompt *)

\* C35: when the pointer-up that ends a token selection opens the
\* entity-type prompt, Save pressed in it before any option is chosen
\* changes neither the document nor the journal
C35_TypeOfThisPrompt ==
    (is_selecting /\ selected_tokens # {} /\ ~entity_popup_visible) =>
        \A pos \in Points :
            LET opened == handle_mouse_up(St, pos)
                saved == entity_popup_click(opened, "save")
            IN  opened.entity_popup_visible =>
                    /\ saved.doc = opened.doc
                    /\ saved.undo_stack = opened.undo_stack
                    /\ saved.redo_stack = opened.redo_stack

\* C36: after an import into a new database the count import_from_jsonl
\* returns is the number of documents get_document_ids lists, a record whose
\* import raised has no row in any table, and every counted record is
\* listed and has exactly its own sentences
C36_CountIsListed ==
    last = "import" =>
        LET doc_ids == get_document_ids(database)
        IN  /\ pre.count = Len(doc_ids)
            /\ \A i \in DOMAIN pre.file :
                  pre.file[i].kind = "document" =>
                      LET id == LineId(i - 1, pre.file[i])
                      IN  IF WellFormed(pre.file[i])
                          THEN /\ id \in Range(doc_ids)
                               /\ get_document(database, id).sentences
                                      = pre.file[i].sentences
                          ELSE /\ id \notin Range(doc_ids)
                               /\ rows_of(database.sentences, id) = <<>>
                               /\ rows_of(database.entities, id) = <<>>
                               /\ rows_of(database.relations, id) = <<>>

---------------------------------------------------------------------------
(* Claims about what the database holds when a document is left *)

\* C37: when the window is closed or another document is loaded, the
\* database holds the document as it is in memory: its sentences and,
\* bucket by bucket, its entities and its relations
C37_SavedWhenLeft ==
    [][last' \in {"load", "quit"} =>
          SameStored(get_document(database, loaded_doc_id),
                     as_json(loaded_doc_id, doc))]_vars

---------------------------------------------------------------------------
(* Claims about the label of a relation *)

\* C38: in a container with room for both margins, the label anchor of
\* every rendered relation lies inside the container inset by 30 pixels,
\* wherever the view is scrolled to
C38_LabelInsideContainer ==
    (doc_container.w >= 60 /\ doc_container.h >= 60) =>
        LET shown == render_relations(rendered_entities, doc.relations)
        IN  \A i \in DOMAIN shown :
               LET x == label_x(doc_container, shown[i].source, shown[i].target)
                   y == label_y(doc_container, shown[i].source, shown[i].target)
               IN  /\ doc_container.x + 30 <= x
                   /\ x <= right(doc_container) - 30
                   /\ doc_container.y + 30 <= y
                   /\ y <= bottom(doc_container) - 30

=============================================================================
